---- MODULE Spec2Model ----
(***************************************************************************)
(* Offline-first synchronisation engine of the Trippo web app:             *)
(*   src/src/lib/syncManager.ts   SyncManager (mutation queue and replay)  *)
(*   src/src/lib/indexedDB.ts     the Local Store (object stores)          *)
(*   src/src/hooks/useApi.ts      the Reconciler (one hook per endpoint)   *)
(*   src/unnamed/part_010         useLocalStorage (legacy write path)      *)
(* The remote API and the clock are the environment: a remote call is      *)
(* answered by an acknowledgment, a transport failure or a rejection.      *)
(***************************************************************************)
EXTENDS Integers, Sequences, FiniteSets, TLC

(***************************************************************************)
(* Bounds of the model and program constants.                              *)
(***************************************************************************)
\* number of write operations (useApi and useLocalStorage together) in a run
MaxWrites == 2
\* syncManager.ts:258-259 "keep last 100 for debugging"
KEEP_SYNCED == 100
\* number of callers that may invoke syncAll concurrently
MaxCallers == 2
\* clock ticks in a calendar day: the sales of one run fall on the same day
TicksPerDay == 4
\* the longest list handed to a sales dedup pass
MaxLen == 3
\* the page loads that restore another session
MaxLogins == 1

None == <<>>

Endpoints == {"products", "sales", "clients", "schedules"}
LsStores == {"products", "sales", "settings"}
StoreNames == Endpoints \cup LsStores
Users == {"u1", "u2"}
Callers == 1..MaxCallers

(***************************************************************************)
(* Identifiers.  A local identifier is a number (generateUniqueId), a      *)
(* server identifier is a string (_id); <<"n", k>> and <<"s", k>> keep     *)
(* the two JavaScript types apart.  <<"n", k>> stands for the k-th value   *)
(* of generateUniqueId, a number above 1e15.                               *)
(***************************************************************************)
NumId(k) == <<"n", k>>
StrId(k) == <<"s", k>>
IsNum(i) == i # None /\ i[1] = "n"
IsStr(i) == i # None /\ i[1] = "s"

\* (item as any)._id || (item as any).id
IdOf(r) == IF r.sid # None THEN r.sid ELSE r.id

\* useApi.ts mapItem: a record with _id and no id gets id = _id
mapItem(r) == IF r.sid # None /\ r.id = None THEN [r EXCEPT !.id = r.sid] ELSE r

\* IndexedDB key order: numbers before strings, each ascending
KeyLess(a, b) ==
  \/ a[1] = "n" /\ b[1] = "s"
  \/ a[1] = b[1] /\ a[2] < b[2]

\* store.put: upsert by the key path "id"
PutRec(S, r) == {x \in S : x.id # r.id} \cup {r}
\* store.delete(key)
DelKey(S, k) == {x \in S : x.id # k}
HasKey(S, k) == \E x \in S : x.id = k

\* store.getAll(): the records in key order
RECURSIVE getAllItems(_)
getAllItems(S) ==
  IF S = {} THEN <<>>
  ELSE LET m == CHOOSE x \in S : \A y \in S : y = x \/ KeyLess(x.id, y.id)
       IN <<m>> \o getAllItems(S \ {m})

SeqToSet(s) == {s[i] : i \in 1..Len(s)}

VARIABLES
  navOnline,        \* navigator.onLine
  isOnline,         \* SyncManager.isOnline
  syncInProgress,   \* SyncManager.syncInProgress
  syncQueue,        \* object store "syncQueue", in key order
  nextKey,          \* key generator of the autoIncrement store
  db,               \* object stores of the entity collections
  server,           \* the remote store, per collection
  nextSrv,          \* next identifier the remote store assigns
  nextTmp,          \* next value of generateUniqueId
  writes,           \* write operations started so far
  endpoint,         \* the endpoint of the useApi hook instance
  userId,           \* localStorage "profit-pilot-user-id"
  items,            \* useApi state: the collection view
  cache,            \* apiCache entry of "/<endpoint>"
  changed,          \* localStorage "profit-pilot-<endpoint>-changed"
  lastSync,         \* localStorage "profit-pilot-last-sync" is set
  op,               \* the useApi write in progress
  qa,               \* the queueAction call in progress
  sync,             \* the syncAll invocations, per caller
  load,             \* the loadData call in progress
  acked,            \* history: queue ids the remote API has acknowledged
  everQueued,       \* history: queue ids ever appended to the queue
  born,             \* history: <<queue id, _id>> of the records replayed creates made
  reentered,        \* history: syncAll was invoked during the pass in progress
  rejected,         \* history: queue ids whose replay the remote rejected, with the reason
  observe,          \* the histories a run keeps besides those above, and
                    \* the optional inputs it admits
  storedUserId,     \* localStorage "profit-pilot-stored-user-id"
  logins,           \* page loads that restored another session so far
  pushed,           \* the sale:created pushes delivered: <<_id, stage>>
  made,             \* history: <<temporary id, _id>> of the records the creates of the hook made
  apiCache,         \* the Response Cache: its entries, the clock and the last call made on it
  requestManager,   \* the Request Coordinator: RequestManager's fields, its timers and the clock
  idGenerator,      \* the Identifier Generator: its counter, the clock and the ids it returned
  ws,               \* the Real-Time Channel hook: its sockets, timers and counters
  websocketManager, \* the push registry: listeners by message type
  due,              \* syncAll calls that a trigger has made and that have not started yet
  done              \* history: the finished useApi writes

vars == <<navOnline, isOnline, syncInProgress, syncQueue, nextKey, db, server,
          nextSrv, nextTmp, writes, endpoint, userId, items, cache, changed,
          lastSync, op, qa, sync, load, acked, everQueued, born, reentered, done,
          rejected, observe, storedUserId, logins, pushed, made, apiCache, requestManager, idGenerator, ws, websocketManager, due>>

\* the state of the sync engine and of the hook, which the library
\* singletons below never touch
hookVars == <<navOnline, isOnline, syncInProgress, syncQueue, nextKey, db, server,
              nextSrv, nextTmp, writes, endpoint, userId, items, cache, changed,
              lastSync, op, qa, sync, load, acked, everQueued, born, reentered, done,
              rejected, observe, storedUserId, logins, pushed, made, due>>


(***************************************************************************)
(* Records.  An entity record is [id, sid, c, uid, ts]: id is the key of   *)
(* the object store, sid the server's _id, c the domain payload, uid the   *)
(* owner, ts the timestamp of a sale (0 elsewhere).  A queued mutation is  *)
(* [id, type, store, data, synced].                                        *)
(***************************************************************************)
Contents == {"a", "b"}
Rec(i, s, c, u, t) == [id |-> i, sid |-> s, c |-> c, uid |-> u, ts |-> t]

\* an absent payload or owner (undefined)
Absent == "-"
NoCache == [has |-> FALSE, data |-> <<>>]

IdleOp == [pc |-> "idle"]
IdleQa == [pc |-> "idle"]
IdleSync == [pc |-> "idle", pending |-> <<>>, i |-> 0, attempted |-> <<>>, failed |-> {}]
IdleLoad == [pc |-> "idle"]
\* idle after a load for the owner u that returned at the cache fast path
\* with the cached list d (useApi.ts lines 127-133)
FromCache(u, d) == [pc |-> "idle", from |-> "cache", user |-> u, data |-> d]

\* a settled mutation of an earlier session: an acknowledged delete of a client
OldAction(k) ==
  [id |-> k, type |-> "delete", store |-> "clients",
   data |-> Rec(StrId(0), StrId(0), "a", "u1", 0), synced |-> TRUE]

\* the state after construction, with h settled mutations kept from earlier
\* sessions, for a run that keeps the histories O; o is the position of the
\* hook's write
InitHook(h, E, O, o) ==
  /\ navOnline \in BOOLEAN
  /\ isOnline = navOnline                 \* syncManager.ts:17
  /\ syncInProgress = FALSE               \* syncManager.ts:18
  /\ syncQueue = [k \in 1..h |-> OldAction(k)]
  /\ nextKey = h + 1
  /\ db = [s \in StoreNames |-> {}]
  /\ server = [s \in Endpoints |-> {}]
  /\ nextSrv = 1
  /\ nextTmp = 1
  /\ writes = 0
  /\ endpoint \in E
  /\ userId = "u1"
  /\ items = <<>>
  /\ cache = NoCache
  /\ changed = FALSE
  /\ lastSync = FALSE
  /\ op = o
  /\ qa = IdleQa
  /\ sync = [c \in Callers |-> IdleSync]
  /\ load = IdleLoad
  /\ acked = 1..h
  /\ everQueued = 1..h
  /\ born = {}
  /\ reentered = FALSE
  /\ done = <<>>
  /\ rejected = {}
  /\ observe = O
  /\ storedUserId = "u1"
  /\ logins = 0
  /\ pushed = {}
  /\ made = {}
  /\ due = 0

\* ApiCacheManager, websocketManager.ts line 84: an empty Map
EmptyCache == [cache |-> <<>>, now |-> 1, last |-> [op |-> "none", key |-> <<>>]]

\* RequestManager, requestManager.ts lines 11-14, with the timers it has set,
\* the requests in flight, the clock and the history of its calls
NewRequestManager ==
  [pendingRequests |-> {}, requestQueue |-> <<>>, isProcessingQueue |-> FALSE,
   pc |-> "idle", batch |-> {}, running |-> {}, timers |-> {}, now |-> 0,
   invoked |-> 0, calls |-> 0, last |-> [op |-> "none"]]

\* idGenerator.ts line 4: the counter, with the clock (milliseconds since a
\* start that the model fixes) and the history of the ids returned
NewIdGenerator == [counter |-> 0, now |-> 0, issued |-> <<>>, last |-> [op |-> "none"]]

\* sockets the hook may hold at once, closed ones not counted
MaxSockets == 2

\* useWebSocket.ts lines 29-33 before the mount effect: the state and the
\* refs of the hook; made counts the reconnections since the last open or
\* the last reset
NewWebSocket ==
  [mounted |-> "no", mountUser |-> Absent, held |-> 0,
   isConnected |-> FALSE, reconnectAttempts |-> 0, wsRef |-> 0,
   sockets |-> [k \in 1..MaxSockets |-> [state |-> "none", captured |-> 0]],
   timers |-> {}, timeoutRef |-> 0, ping |-> FALSE, made |-> 0]

\* websocketManager.ts:6: no listeners; made counts the callbacks created,
\* subs and cancelled are the subscriptions in force and the callbacks whose
\* unsubscribe function was called
NewWebSocketManager ==
  [listeners |-> <<>>, made |-> 0, subs |-> {}, cancelled |-> {},
   last |-> [op |-> "none"]]

\* the library singletons right after construction
InitLib ==
  /\ apiCache = EmptyCache
  /\ requestManager = NewRequestManager
  /\ idGenerator = NewIdGenerator
  /\ ws = NewWebSocket
  /\ websocketManager = NewWebSocketManager

InitAt(h, E, O, o) == InitHook(h, E, O, o) /\ InitLib

\* no write of the hook is in progress
InitObserving(h, E, O) == InitAt(h, E, O, IdleOp)

InitWith(h, E) == InitObserving(h, E, {})

Init == InitWith(0, {"clients"})

(***************************************************************************)
(* The remote API (lib/api, a collaborator).  create returns the canonical *)
(* record with a fresh _id; update and delete address a record by _id.     *)
(***************************************************************************)
\* itemId.toString() names a server record only if it is a server _id
OnServer(store, i) == IsStr(i) /\ \E x \in server[store] : x.sid = i

\* the answers a remote call of mutation a can get
Answers(a) ==
  {"net"} \cup
  (IF navOnline
     THEN {"app"} \cup
          (IF a.type = "create" \/ OnServer(a.store, IdOf(a.data)) THEN {"ok"} ELSE {})
     ELSE {})

\* response.data of an acknowledged call (None for delete)
Response(a) ==
  CASE a.type = "create" -> Rec(None, StrId(nextSrv), a.data.c, a.data.uid, a.data.ts)
    [] a.type = "update" -> Rec(None, IdOf(a.data), a.data.c, a.data.uid, a.data.ts)
    [] OTHER -> None

\* the remote store after the acknowledged call
ServerAfter(a) ==
  CASE a.type = "create" -> [server EXCEPT ![a.store] = @ \cup {Response(a)}]
    [] a.type = "update" ->
         [server EXCEPT ![a.store] = {x \in @ : x.sid # IdOf(a.data)} \cup {Response(a)}]
    [] OTHER -> [server EXCEPT ![a.store] = {x \in @ : x.sid # IdOf(a.data)}]

SrvAfter(a) == IF a.type = "create" THEN nextSrv + 1 ELSE nextSrv


\* syncAll calls that may wait to start
MaxDue == 3

\* the triggers of syncAll are counted when the specification follows them:
\* n more calls are due, and there is room for them
Triggered(n) == IF "due" \in observe THEN due + n ELSE due
Room(n) == "due" \notin observe \/ due + n <= MaxDue

(***************************************************************************)
(* SyncManager (syncManager.ts).                                           *)
(***************************************************************************)
QueueIds(q) == {q[i].id : i \in 1..Len(q)}
Pending(q) == SelectSeq(q, LAMBDA a : ~a.synced)
Settled(q) == SelectSeq(q, LAMBDA a : a.synced)

\* syncAction reaches a remote call only for the four API collections
HasApi(a) == a.store \in Endpoints
\* syncAction lines 115-117 and 130-132: "Item ID is required"
MissingId(a) == a.type \in {"update", "delete"} /\ IdOf(a.data) = None

\* why a replay ends in an error that is no connectivity failure: the id of
\* an update or delete names no record of the remote (or is missing), or the
\* remote rejects the payload (validation, auth)
Refusal(a) ==
  IF a.type \in {"update", "delete"} /\ ~OnServer(a.store, IdOf(a.data))
    THEN "noid" ELSE "app"

\* a queueAction that starts the replay without adding to the queue
queueLater(q, a) == q

\* queueAction lines 74-75: the mutation is added to the queue first
queueFirst(q, a) == Append(q, a)

\* markAsSynced: the entry with this id, if still queued, gets synced = true
markAsSynced(q, k) ==
  [i \in 1..Len(q) |-> IF q[i].id = k THEN [q[i] EXCEPT !.synced = TRUE] ELSE q[i]]

RECURSIVE FindFirst(_, _)
FindFirst(s, M) ==
  IF s = <<>> THEN None
  ELSE IF Head(s) \in M THEN Head(s) ELSE FindFirst(Tail(s), M)

\* syncAction lines 155-173: the local record a create is matched with
matchingLocalItem(a, syncedItem) ==
  LET S == db[a.store]
      M == IF a.store = "sales"
             THEN {x \in S : x.c = syncedItem.c}
             ELSE {x \in S : IdOf(x) = IdOf(a.data)}
  IN FindFirst(getAllItems(S), M)

\* syncAction lines 146-187: the object store after an acknowledged call.
\* parseInt of a server _id names no key of the store, so only a numeric
\* id leads to a deletion.
StoreAfterSync(a) ==
  LET resp == Response(a)
      syncedItem == mapItem(resp)
      m == matchingLocalItem(a, syncedItem)
      S1 == IF a.type = "create" /\ m # None /\ IsNum(IdOf(m))
              THEN DelKey(db[a.store], IdOf(m))
              ELSE db[a.store]
  IN IF resp # None THEN PutRec(S1, syncedItem) ELSE db[a.store]

\* the effects of an acknowledged remote call of mutation a (syncAction 146-192)
Acknowledge(a) ==
  /\ server' = ServerAfter(a)
  /\ nextSrv' = SrvAfter(a)
  /\ db' = [db EXCEPT ![a.store] = StoreAfterSync(a)]
  /\ acked' = acked \cup {a.id}
  /\ born' = IF a.type = "create" THEN born \cup {<<a.id, StrId(nextSrv)>>} ELSE born

\* queueAction(action), called by a write of the given origin
QueueAction(type, store, data, from) ==
  LET a == [id |-> nextKey, type |-> type, store |-> store, data |-> data,
            synced |-> FALSE]
      q1 == queueFirst(syncQueue, a)
  IN /\ nextKey' = nextKey + 1
     /\ everQueued' = everQueued \cup QueueIds(q1)
     /\ IF isOnline /\ ~MissingId(a) /\ HasApi(a)
          THEN /\ syncQueue' = q1
               /\ qa' = [pc |-> "call", action |-> a, from |-> from]
          ELSE /\ qa' = IdleQa
               /\ syncQueue' = IF isOnline /\ ~MissingId(a)
                                 THEN markAsSynced(q1, a.id)
                                 ELSE q1

\* the finished useApi write, as its caller observes it
Finish(o, outcome, failure, queued) ==
  Append(done, [kind |-> o.kind, store |-> endpoint, rec |-> o.rec,
                outcome |-> outcome, failure |-> failure, queued |-> queued])

\* queueAction lines 79-86: the answer to the immediate replay
QaAnswer ==
  /\ qa.pc = "call"
  /\ \E r \in Answers(qa.action) :
       IF r = "ok"
         THEN /\ Acknowledge(qa.action)
              /\ syncQueue' = markAsSynced(markAsSynced(syncQueue, qa.action.id),
                                           qa.action.id)
              /\ UNCHANGED rejected
         ELSE /\ UNCHANGED <<server, nextSrv, db, acked, born, syncQueue>>
              /\ rejected' = IF r = "app" /\ "rejected" \in observe
                               THEN rejected \cup {<<qa.action.id, Refusal(qa.action)>>}
                               ELSE rejected
  /\ qa' = IdleQa
  /\ IF qa.from = "api"
       THEN /\ op' = IdleOp
            /\ done' = Finish(op, op.outcome, "net", qa.action.id)
       ELSE UNCHANGED <<op, done>>
  /\ UNCHANGED <<navOnline, isOnline, syncInProgress, nextKey, nextTmp, writes,
                 endpoint, userId, items, cache, changed, lastSync, sync, load,
                 everQueued,
                 reentered, observe, storedUserId, logins, pushed, made, apiCache, requestManager, idGenerator, ws, websocketManager, due>>

\* a syncAll without the re-entrancy guard
neverRunning == FALSE

\* syncAll lines 223-225: a pass is already running
alreadyRunning == syncInProgress

\* syncAll lines 216-228: the guards and the re-entrancy flag.  Invocations
\* are anonymous: a new one takes the lowest slot that is not running.
SyncAllStart(c) ==
  /\ sync[c].pc = "idle"
  /\ \A d \in Callers : d < c => sync[d].pc # "idle"
  /\ IF ~navOnline
       THEN /\ isOnline' = FALSE
            /\ UNCHANGED <<syncInProgress, sync, reentered>>
       ELSE IF alreadyRunning
         THEN /\ reentered' = TRUE
              /\ UNCHANGED <<isOnline, syncInProgress, sync>>
         ELSE /\ isOnline' = TRUE
              /\ syncInProgress' = TRUE
              /\ sync' = [sync EXCEPT ![c] = [IdleSync EXCEPT !.pc = "read"]]
              /\ UNCHANGED reentered
  /\ due' = IF due > 0 THEN due - 1 ELSE due
  /\ UNCHANGED <<navOnline, syncQueue, nextKey, db, server, nextSrv, nextTmp,
                 writes, endpoint, userId, items, cache, changed, lastSync, op,
                 qa, load, acked, everQueued, done,
                 born, rejected, observe, storedUserId, logins, pushed, made, apiCache, requestManager, idGenerator, ws, websocketManager>>

\* a syncAll that walks the queue newest first
pendingNewestFirst(q) ==
  LET p == Pending(q) IN [k \in 1..Len(p) |-> p[Len(p) + 1 - k]]

\* the order in which syncAll walks the queue (getAllItems, then filter)
pendingActions(q) == Pending(q)

\* syncAll lines 231-236: read the queue; nothing pending ends the pass
SyncRead(c) ==
  /\ sync[c].pc = "read"
  /\ LET p == pendingActions(syncQueue)
     IN IF p = <<>>
          THEN /\ sync' = [sync EXCEPT ![c] = IdleSync]
               /\ syncInProgress' = FALSE
               /\ reentered' = FALSE
          ELSE /\ sync' = [sync EXCEPT ![c] = [@ EXCEPT !.pc = "loop", !.pending = p, !.i = 1]]
               /\ UNCHANGED <<syncInProgress, reentered>>
  /\ UNCHANGED <<navOnline, isOnline, syncQueue, nextKey, db, server, nextSrv,
                 nextTmp, writes, endpoint, userId, items, cache, changed,
                 lastSync, op, qa, load, acked, everQueued, done,
                 born, rejected, observe, storedUserId, logins, pushed, made, apiCache, requestManager, idGenerator, ws, websocketManager, due>>

\* syncAll lines 240-247: one iteration of the loop, up to the remote call
SyncStep(c) ==
  /\ sync[c].pc = "loop"
  /\ LET st == sync[c]
         a == st.pending[st.i]
     IN IF st.i > Len(st.pending)
          THEN /\ sync' = [sync EXCEPT ![c] = [@ EXCEPT !.pc = "prune"]]
               /\ UNCHANGED <<isOnline, syncQueue, rejected>>
          ELSE IF ~navOnline
            THEN /\ isOnline' = FALSE
                 /\ sync' = [sync EXCEPT ![c] = [@ EXCEPT !.pc = "prune"]]
                 /\ UNCHANGED <<syncQueue, rejected>>
            ELSE /\ UNCHANGED isOnline
                 /\ IF MissingId(a)
                      THEN /\ sync' = [sync EXCEPT ![c] =
                                 [@ EXCEPT !.i = @ + 1,
                                           !.attempted = Append(@, a.id),
                                           !.failed = @ \cup {a.id}]]
                           /\ rejected' = IF "rejected" \in observe
                                            THEN rejected \cup {<<a.id, "noid">>}
                                            ELSE rejected
                           /\ UNCHANGED syncQueue
                      ELSE IF HasApi(a)
                        THEN /\ sync' = [sync EXCEPT ![c] =
                                   [@ EXCEPT !.pc = "call",
                                             !.attempted = Append(@, a.id)]]
                             /\ UNCHANGED <<syncQueue, rejected>>
                        ELSE /\ sync' = [sync EXCEPT ![c] =
                                   [@ EXCEPT !.i = @ + 1,
                                             !.attempted = Append(@, a.id)]]
                             /\ syncQueue' = markAsSynced(syncQueue, a.id)
                             /\ UNCHANGED rejected
  /\ UNCHANGED <<navOnline, syncInProgress, nextKey, db, server, nextSrv,
                 nextTmp, writes, endpoint, userId, items, cache, changed,
                 lastSync, op, qa, load, acked, everQueued, done,
                 born, reentered, observe, storedUserId, logins, pushed, made, apiCache, requestManager, idGenerator, ws, websocketManager, due>>

\* syncAll lines 247-252: the answer to the remote call of the iteration
SyncAnswer(c) ==
  /\ sync[c].pc = "call"
  /\ LET a == sync[c].pending[sync[c].i]
     IN \E r \in Answers(a) :
          IF r = "ok"
            THEN /\ Acknowledge(a)
                 /\ syncQueue' = markAsSynced(syncQueue, a.id)
                 /\ sync' = [sync EXCEPT ![c] = [@ EXCEPT !.pc = "loop", !.i = @ + 1]]
                 /\ UNCHANGED rejected
            ELSE /\ UNCHANGED <<server, nextSrv, db, acked, born, syncQueue>>
                 /\ rejected' = IF r = "app" /\ "rejected" \in observe
                                  THEN rejected \cup {<<a.id, Refusal(a)>>}
                                  ELSE rejected
                 /\ sync' = [sync EXCEPT ![c] =
                       [@ EXCEPT !.pc = "loop", !.i = @ + 1, !.failed = @ \cup {a.id}]]
  /\ UNCHANGED <<navOnline, isOnline, syncInProgress, nextKey, nextTmp, writes,
                 endpoint, userId, items, cache, changed, lastSync, op, qa, load,
                 everQueued, done,
                 reentered, observe, storedUserId, logins, pushed, made, apiCache, requestManager, idGenerator, ws, websocketManager, due>>

\* syncAll lines 255-264: the queue after the clean-up
Cleanup(q) ==
  LET syncedActions == Settled(q)
      n == Len(syncedActions)
  IN IF n > KEEP_SYNCED
       THEN SubSeq(syncedActions, n - KEEP_SYNCED + 1, n)
       ELSE q

\* syncAll lines 255-269: clean-up, then the finally block
SyncPrune(c) ==
  /\ sync[c].pc = "prune"
  /\ syncQueue' = Cleanup(syncQueue)
  /\ syncInProgress' = FALSE
  /\ reentered' = FALSE
  /\ sync' = [sync EXCEPT ![c] = IdleSync]
  /\ UNCHANGED <<navOnline, isOnline, nextKey, db, server, nextSrv, nextTmp,
                 writes, endpoint, userId, items, cache, changed, lastSync, op,
                 qa, load, acked, everQueued, done,
                 born, rejected, observe, storedUserId, logins, pushed, made, apiCache, requestManager, idGenerator, ws, websocketManager, due>>

(***************************************************************************)
(* Connectivity (syncManager.ts lines 31-60).                              *)
(***************************************************************************)
NetChange ==
  /\ navOnline \/ Room(2)
  /\ navOnline' = ~navOnline
  /\ due' = IF navOnline THEN due ELSE Triggered(2)
  /\ UNCHANGED <<isOnline, syncInProgress, syncQueue, nextKey, db, server,
                 nextSrv, nextTmp, writes, endpoint, userId, items, cache,
                 changed, lastSync, op, qa, sync, load, acked, everQueued, done,
                 born, reentered, rejected, observe, storedUserId, logins, pushed, made, apiCache, requestManager, idGenerator, ws, websocketManager>>

\* the sync button of the offline indicator (OfflineIndicator.tsx lines
\* 14-28): one more call of syncAll while the page shows the client online
SyncButton ==
  /\ navOnline
  /\ Room(1)
  /\ due' = Triggered(1)
  /\ UNCHANGED <<navOnline, isOnline, syncInProgress, syncQueue, nextKey, db, server,
                 nextSrv, nextTmp, writes, endpoint, userId, items, cache,
                 changed, lastSync, op, qa, sync, load, acked, everQueued, done,
                 born, reentered, rejected, observe, storedUserId, logins, pushed, made, apiCache, requestManager, idGenerator, ws, websocketManager>>

\* handleOnline / handleOffline, by the event or by the 5 s poll; the
\* syncAll that handleOnline schedules is a later SyncAllStart
HandleConnectivity ==
  /\ isOnline # navOnline
  /\ isOnline' = navOnline
  /\ UNCHANGED <<navOnline, syncInProgress, syncQueue, nextKey, db, server,
                 nextSrv, nextTmp, writes, endpoint, userId, items, cache,
                 changed, lastSync, op, qa, sync, load, acked, everQueued, done,
                 born, reentered, rejected, observe, storedUserId, logins, pushed, made, apiCache, requestManager, idGenerator, ws, websocketManager, due>>


(***************************************************************************)
(* The Reconciler: the useApi hook of one endpoint (useApi.ts).            *)
(***************************************************************************)
ExistsById(s, i) == \E k \in 1..Len(s) : IdOf(s[k]) = i
ReplaceById(s, i, r) == [k \in 1..Len(s) |-> IF IdOf(s[k]) = i THEN r ELSE s[k]]
RemoveById(s, i) == SelectSeq(s, LAMBDA x : IdOf(x) # i)

\* Array.prototype.sort by timestamp, newest first (the sort is stable)
RECURSIVE InsertDesc(_, _)
InsertDesc(s, x) ==
  IF s = <<>> THEN <<x>>
  ELSE IF Head(s).ts >= x.ts THEN <<Head(s)>> \o InsertDesc(Tail(s), x)
       ELSE <<x>> \o s
RECURSIVE SortDesc(_)
SortDesc(s) ==
  IF s = <<>> THEN <<>>
  ELSE InsertDesc(SortDesc(SubSeq(s, 1, Len(s) - 1)), s[Len(s)])

\* a test that takes every id for a server id
anyId(i) == TRUE

\* useApi.ts lines 860-861: a string, or a number below 1e15, is a server id
IsServerId(i) == IsStr(i)

\* lines 848-851, 1461-1464: the date of a sale up to its 'T' is its day
DayOf(t) == t \div TicksPerDay

\* lines 852, 1465: `${product}_${dateStr}_${quantity}_${revenue}`
saleKey(x) == <<x.c, DayOf(x.ts)>>

\* useApi.ts lines 845-870: deduplicate sales by content, preferring server ids
RECURSIVE Dedup(_, _)
Dedup(s, seen) ==
  IF s = <<>> THEN seen
  ELSE LET x == Head(s)
           hit == {k \in 1..Len(seen) : saleKey(seen[k]) = saleKey(x)}
       IN IF hit = {}
            THEN Dedup(Tail(s), Append(seen, x))
            ELSE LET k == CHOOSE j \in hit : TRUE
                 IN IF IsServerId(IdOf(x)) /\ ~IsServerId(IdOf(seen[k]))
                      THEN Dedup(Tail(s), [seen EXCEPT ![k] = x])
                      ELSE Dedup(Tail(s), seen)

\* a hook that takes every session for authenticated
anyoneIsAuthenticated == TRUE

\* lines 45-46, 711-712, 1121-1122, 1247-1248, 1369-1370, 1570-1571: the
\* session provider names an active owner
authenticated == userId # Absent

\* the pseudo mutation of a direct remote call of the hook
Direct(kind, rec) ==
  [id |-> 0, type |-> kind, store |-> endpoint, data |-> rec, synced |-> FALSE]

\* useApi.ts lines 1056-1061, 1208-1212, 1332-1336
isNetworkError(r) == ~navOnline \/ r = "net"

\* a write that throws before it touched the store, the view or the network:
\* 'User not authenticated. Please login.' (lines 711-714, 1121-1124,
\* 1247-1250, 1369-1372) and the other early errors of bulkAdd
Thrown(kind, rec, failure) ==
  /\ done' = Append(done, [kind |-> kind, store |-> endpoint, rec |-> rec,
                           outcome |-> "error", failure |-> failure, queued |-> 0])
  /\ UNCHANGED <<db, items, op, nextTmp, cache, changed>>

\* the records a caller can hand to update and remove
Known == SeqToSet(items) \cup {mapItem(x) : x \in db[endpoint]}

\* add, lines 709-756 (and 758-775, 895-918): the optimistic insert, then the
\* remote create is issued; for sales add returns here
\* add, lines 737-741: a sale keeps the timestamp its caller gave it and gets
\* the clock's only when it carries none.  NoStamp is a sale without one; a
\* run admits sales dated before every clock reading when it observes "dated"
NoStamp == -1
GivenStamps == IF "dated" \in observe THEN {NoStamp, 0} ELSE {NoStamp}

ApiAdd ==
  /\ writes < MaxWrites /\ op.pc = "idle"
  /\ \E c \in Contents, given \in GivenStamps :
       IF ~authenticated
         THEN Thrown("create", Rec(None, None, c, Absent, 0), "auth")
         ELSE LET itemWithId == Rec(NumId(nextTmp), None, c, userId,
                                   IF endpoint # "sales" THEN 0
                                   ELSE IF given = NoStamp THEN nextTmp
                                   ELSE given)
                  newItem == mapItem(itemWithId)
              IN /\ db' = [db EXCEPT ![endpoint] = PutRec(@, itemWithId)]
                 /\ items' = IF endpoint = "sales" THEN <<newItem>> \o items
                                                   ELSE Append(items, newItem)
                 /\ op' = [pc |-> IF endpoint = "sales" THEN "bg" ELSE "call",
                           kind |-> "create", rec |-> itemWithId, outcome |-> "ok",
                           user |-> userId]
                 /\ nextTmp' = nextTmp + 1
                 /\ UNCHANGED <<done, cache, changed>>
  /\ writes' = writes + 1
  /\ UNCHANGED <<navOnline, isOnline, syncInProgress, syncQueue, nextKey, server,
                 nextSrv, endpoint, userId, lastSync, qa, sync,
                 load, acked, everQueued,
                 born, reentered, rejected, observe, storedUserId, logins, pushed, made, apiCache, requestManager, idGenerator, ws, websocketManager, due>>

\* add, lines 798-820 and 953-975: the temporary record is replaced in the store
StoreAfterAdd(localId, syncedItem) ==
  LET S == db[endpoint]
      S1 == IF (\E x \in S : IdOf(x) = localId) /\ IsNum(localId)
              THEN DelKey(S, localId) ELSE S
  IN PutRec(S1, [syncedItem EXCEPT !.uid = op.user])

\* add, lines 826-880 and 982-1053: the view after the acknowledgment
ItemsAfterAdd(localId, syncedItem) ==
  IF endpoint = "sales"
    THEN LET updated == IF ExistsById(items, localId)
                          THEN ReplaceById(items, localId, syncedItem)
                          ELSE <<syncedItem>> \o items
         IN SortDesc(Dedup(updated, <<>>))
    ELSE IF ExistsById(items, localId)
           THEN ReplaceById(items, localId, syncedItem)
           ELSE Append(items, syncedItem)

\* which failed writes the hook hands to queueAction: add lines 1063-1100,
\* update lines 1202-1231, remove lines 1318-1349
QueuesOnFailure(kind, r) ==
  /\ isNetworkError(r)
  /\ endpoint \in {"clients", "schedules"}

\* what the caller of a failed write observes
OutcomeOnFailure(kind, r) ==
  CASE kind = "create" /\ endpoint = "sales" -> "ok"
    [] kind = "delete" -> "ok"
    [] QueuesOnFailure(kind, r) -> "savedLocally"
    [] OTHER -> "error"

\* the answer to the hook's direct remote call: add lines 775-889 and 908-1101,
\* update lines 1158-1232, remove lines 1299-1350
ApiAnswer ==
  /\ op.pc \in {"call", "bg", "handled"}
  /\ LET a == Direct(op.kind, op.rec)
         localId == IdOf(op.rec)
         handled == op.pc = "handled"
     IN \E r \in IF handled THEN {"ok", "net"} ELSE Answers(a) :
          IF r = "ok"
            THEN /\ server' = IF handled THEN server ELSE ServerAfter(a)
                 /\ nextSrv' = IF handled THEN nextSrv ELSE SrvAfter(a)
                 /\ IF op.kind = "delete"
                      THEN UNCHANGED <<db, items, cache, changed, made>>
                      ELSE LET resp == IF handled THEN op.resp ELSE Response(a)
                               syncedItem == mapItem(resp)
                           IN /\ db' = [db EXCEPT ![endpoint] =
                                     IF op.kind = "create"
                                       THEN StoreAfterAdd(localId, syncedItem)
                                       ELSE PutRec(@, [syncedItem EXCEPT !.uid = op.user])]
                              /\ items' = IF op.kind = "create"
                                            THEN ItemsAfterAdd(localId, syncedItem)
                                            ELSE ReplaceById(items, localId, syncedItem)
                              /\ cache' = NoCache
                              /\ changed' = TRUE
                              /\ made' = IF op.kind = "create" /\ "made" \in observe
                                           THEN made \cup {<<localId, syncedItem.sid>>}
                                           ELSE made
                 /\ op' = IdleOp
                 /\ done' = Finish(op, "ok", "none", 0)
                 /\ UNCHANGED <<syncQueue, nextKey, qa, everQueued>>
            ELSE /\ UNCHANGED <<server, nextSrv, db, items, cache, changed, made>>
                 /\ IF QueuesOnFailure(op.kind, r)
                      THEN /\ qa.pc = "idle"
                           /\ QueueAction(op.kind, endpoint, op.rec, "api")
                           /\ IF qa'.pc = "idle"
                                THEN /\ op' = IdleOp
                                     /\ done' = Finish(op, OutcomeOnFailure(op.kind, r),
                                                       "net", nextKey)
                                ELSE /\ op' = [op EXCEPT !.pc = "queue",
                                                 !.outcome = OutcomeOnFailure(op.kind, r)]
                                     /\ UNCHANGED done
                      ELSE /\ op' = IdleOp
                           /\ done' = Finish(op, OutcomeOnFailure(op.kind, r),
                                             IF isNetworkError(r) THEN "net" ELSE "app",
                                             0)
                           /\ UNCHANGED <<syncQueue, nextKey, qa, everQueued>>
  /\ UNCHANGED <<navOnline, isOnline, syncInProgress, nextTmp, writes, endpoint,
                 userId, lastSync, sync, load, acked,
                 born, reentered, rejected, observe, storedUserId, logins, pushed, apiCache, requestManager, idGenerator, ws, websocketManager, due>>

\* update, lines 1119-1170: the local write, then the remote update is issued
ApiUpdate ==
  /\ writes < MaxWrites /\ op.pc = "idle"
  /\ IF ~authenticated
       THEN \E x \in Known : Thrown("update", x, "auth")
       ELSE \E k \in 1..Len(items), c \in Contents :
              LET item == [items[k] EXCEPT !.c = c]
              IN /\ item # items[k]
                 /\ IF item.id = None
                      THEN \* updateItem: a put without the key path "id" fails
                           Thrown("update", item, "store")
                      ELSE /\ db' = [db EXCEPT ![endpoint] =
                                       PutRec(@, [item EXCEPT !.uid = userId])]
                           /\ items' = ReplaceById(items, IdOf(item), mapItem(item))
                           /\ op' = [pc |-> "call", kind |-> "update", rec |-> item,
                                     outcome |-> "ok", user |-> userId]
                           /\ UNCHANGED <<done, nextTmp, cache, changed>>
  /\ writes' = writes + 1
  /\ UNCHANGED <<navOnline, isOnline, syncInProgress, syncQueue, nextKey, server,
                 nextSrv, endpoint, userId, lastSync, qa,
                 sync, load, acked, everQueued,
                 born, reentered, rejected, observe, storedUserId, logins, pushed, made, apiCache, requestManager, idGenerator, ws, websocketManager, due>>

\* remove, lines 1262-1283: the record is deleted under the key it is stored at
StoreAfterRemove(itemId) ==
  LET S == db[endpoint]
      hit == {x \in S : IdOf(x) = itemId}
  IN IF hit # {}
       THEN DelKey(S, (CHOOSE x \in hit : TRUE).id)
       ELSE IF IsNum(itemId) THEN DelKey(S, itemId) ELSE S

\* remove, lines 1245-1310: the local delete, then the remote delete is issued
ApiRemove ==
  /\ writes < MaxWrites /\ op.pc = "idle"
  /\ IF ~authenticated
       THEN \E x \in Known : Thrown("delete", x, "auth")
       ELSE \E k \in 1..Len(items) :
              LET item == items[k]
              IN /\ db' = [db EXCEPT ![endpoint] = StoreAfterRemove(IdOf(item))]
                 /\ items' = RemoveById(items, IdOf(item))
                 /\ op' = [pc |-> "call", kind |-> "delete", rec |-> item,
                           outcome |-> "ok", user |-> userId]
                 /\ cache' = NoCache
                 /\ changed' = TRUE
                 /\ UNCHANGED <<done, nextTmp>>
  /\ writes' = writes + 1
  /\ UNCHANGED <<navOnline, isOnline, syncInProgress, syncQueue, nextKey, server,
                 nextSrv, endpoint, userId, lastSync, qa, sync, load,
                 acked, everQueued,
                 born, reentered, rejected, observe, storedUserId, logins, pushed, made, apiCache, requestManager, idGenerator, ws, websocketManager, due>>

\* add, lines 775-779 and 908-912: the remote has handled the create of the
\* hook and its response is on the way
RemoteHandles ==
  /\ op.pc \in {"call", "bg"} /\ op.kind = "create" /\ navOnline
  /\ LET a == Direct(op.kind, op.rec)
     IN /\ server' = ServerAfter(a)
        /\ nextSrv' = SrvAfter(a)
        /\ op' = [pc |-> "handled", kind |-> op.kind, rec |-> op.rec,
                  outcome |-> op.outcome, user |-> op.user, resp |-> Response(a)]
  /\ UNCHANGED <<navOnline, isOnline, syncInProgress, syncQueue, nextKey, db,
                 nextTmp, writes, endpoint, userId, items, cache, changed,
                 lastSync, qa, sync, load, acked, everQueued, done, born,
                 reentered, rejected, observe, storedUserId, logins, pushed, made, apiCache, requestManager, idGenerator, ws, websocketManager, due>>


(***************************************************************************)
(* loadData (useApi.ts lines 38-567).  The age of the cache is an input.   *)
(***************************************************************************)
\* lines 100-108, 470-477: only records of the active owner
OwnedBy(s, u) == SelectSeq(s, LAMBDA x : x.uid = u)
MapAll(s) == [k \in 1..Len(s) |-> mapItem(s[k])]
WithUser(s, u) == [k \in 1..Len(s) |-> [s[k] EXCEPT !.uid = u]]
RECURSIVE PutAll(_, _)
PutAll(S, s) == IF s = <<>> THEN S ELSE PutAll(PutRec(S, Head(s)), Tail(s))

\* lines 94-135: clients and schedules show the Local Store, then use a fresh
\* cache entry unless a local change is flagged.  Lines 69-84: on a change
\* of user the store is cleared, then apiCache.delete is called; the
\* ApiCacheManager (websocketManager.ts lines 82-198) has get, set,
\* invalidate, invalidateStore and clear and no delete, so the call throws
\* a TypeError that line 79 catches, and the entry stays
usesCache(fresh) == cache.has /\ ~changed /\ lastSync /\ fresh

LoadData ==
  /\ load.pc = "idle"
  /\ IF ~authenticated
       THEN /\ items' = <<>>
            /\ UNCHANGED <<db, cache, storedUserId, load>>
       ELSE LET userChanged == storedUserId # Absent /\ storedUserId # userId
                S == IF userChanged THEN {} ELSE db[endpoint]
            IN /\ db' = [db EXCEPT ![endpoint] = S]
               /\ UNCHANGED cache      \* line 77: apiCache has no method delete
               /\ storedUserId' = userId
               /\ IF endpoint \in {"clients", "schedules"}
                    THEN \E fresh \in BOOLEAN :
                           LET filteredItems == OwnedBy(getAllItems(S), userId)
                               shown == IF filteredItems # <<>>
                                          THEN MapAll(filteredItems) ELSE items
                           IN IF usesCache(fresh)
                                THEN /\ items' = MapAll(cache.data)
                                     /\ load' = FromCache(userId, cache.data)
                                ELSE /\ items' = shown
                                     /\ load' = [pc |-> "fetch", user |-> userId]
                    ELSE /\ load' = [pc |-> "fetch", user |-> userId]
                         /\ UNCHANGED items
  /\ UNCHANGED <<navOnline, isOnline, syncInProgress, syncQueue, nextKey,
                 server, nextSrv, nextTmp, writes, endpoint, userId,
                 changed, lastSync, op, qa, sync, acked, everQueued, done,
                 born, reentered, rejected, observe, logins, pushed, made, apiCache, requestManager, idGenerator, ws, websocketManager, due>>

\* lines 382-442: the clean-up of the merge.  A record of another owner is
\* deleted under its numeric key.  A record of the owner that the server list
\* lacks is kept if its id is a temporary one, and is otherwise deleted under
\* its numeric key; parseInt of a server _id names no key of the store
MergeCleanup(S, u, data) ==
  LET serverIds == {IdOf(data[k]) : k \in 1..Len(data)}
      foreign(x) == x.uid # Absent /\ x.uid # u
      isTemporaryId(x) == IsNum(IdOf(x))
  IN {x \in S :
        IF foreign(x) THEN ~IsNum(x.id)
        ELSE IdOf(x) \in serverIds \/ isTemporaryId(x) \/ ~IsNum(x.id)}

\* lines 285-486: the Local Store after a successful list fetch
StoreAfterFetch(data) ==
  IF endpoint \in {"products", "sales"}
    THEN PutAll({}, WithUser(MapAll(data), userId))
    ELSE PutAll(MergeCleanup(db[endpoint], userId, data),
                WithUser(MapAll(data), userId))

\* lines 313-324, 468-480: the view after a successful list fetch
ItemsAfterFetch(data, S) ==
  CASE endpoint = "sales" -> SortDesc(MapAll(data))
    [] endpoint = "products" -> MapAll(data)
    [] OTHER -> MapAll(OwnedBy(getAllItems(S), userId))

\* lines 487-533: the view after a failed list fetch
ItemsAfterFetchError(r) ==
  IF endpoint = "sales"
    THEN IF r = "net" THEN SortDesc(MapAll(getAllItems(db[endpoint]))) ELSE <<>>
    ELSE items

\* the list the remote API returns: the canonical set of the authenticated
\* owner u
ListOf(store, u) == getAllItems({mapItem(x) : x \in {y \in server[store] : y.uid = u}})
Unmapped(s) == [k \in 1..Len(s) |-> [s[k] EXCEPT !.id = None]]

\* lines 282-533: the answer to the list fetch
LoadAnswer ==
  /\ load.pc = "fetch"
  /\ \E r \in {"net"} \cup (IF navOnline THEN {"ok", "app"} ELSE {}) :
       IF r = "ok" /\ userId = load.user
         THEN LET data == Unmapped(ListOf(endpoint, load.user))
                  S == StoreAfterFetch(data)
              IN /\ db' = [db EXCEPT ![endpoint] = S]
                 /\ items' = ItemsAfterFetch(data, S)
                 /\ cache' = [has |-> TRUE, data |-> data]
                 /\ changed' = FALSE
                 /\ lastSync' = TRUE
         ELSE /\ items' = ItemsAfterFetchError(IF r = "ok" THEN "app" ELSE r)
              /\ UNCHANGED <<db, cache, changed, lastSync>>
  /\ load' = IdleLoad
  /\ UNCHANGED <<navOnline, isOnline, syncInProgress, syncQueue, nextKey, server,
                 nextSrv, nextTmp, writes, endpoint, userId, op, qa, sync, acked,
                 everQueued, done,
                 born, reentered, rejected, observe, storedUserId, logins, pushed, made, apiCache, requestManager, idGenerator, ws, websocketManager, due>>

(***************************************************************************)
(* bulkAdd (useApi.ts lines 1363-1505), for sales only.                    *)
(***************************************************************************)
\* the lists of sales handed to bulkAdd
BulkInputs == {<<"a">>, <<"a", "a">>, <<"a", "b">>}

\* bulkAdd, lines 1363-1400: the early errors, then createBulk is issued
ApiBulkAdd ==
  /\ writes < MaxWrites /\ op.pc = "idle"
  /\ \E cs \in BulkInputs :
       LET first == Rec(None, None, cs[1], userId, nextTmp)
       IN IF endpoint # "sales" THEN Thrown("bulk", first, "unsupported")
          ELSE IF ~authenticated THEN Thrown("bulk", first, "auth")
          ELSE IF ~navOnline THEN Thrown("bulk", first, "net")
          ELSE /\ op' = [pc |-> "bulk", kind |-> "bulk", rec |-> first,
                         recs |-> cs, outcome |-> "ok", user |-> userId]
               /\ UNCHANGED <<db, items, done, nextTmp, cache, changed>>
  /\ writes' = writes + 1
  /\ UNCHANGED <<navOnline, isOnline, syncInProgress, syncQueue, nextKey,
                 server, nextSrv, endpoint, userId, lastSync, qa, sync, load,
                 acked, everQueued, born, reentered, rejected, observe,
                 storedUserId, logins, pushed, made, apiCache, requestManager, idGenerator, ws, websocketManager, due>>

\* bulkAdd, lines 1400-1505: the answer to createBulk.  The created sales
\* are stored under the owner and appended to the view, which is
\* deduplicated and sorted; a failure is rethrown and never queued
ApiBulkAnswer ==
  /\ op.pc = "bulk"
  /\ \E r \in {"net"} \cup (IF navOnline THEN {"ok", "app"} ELSE {}) :
       IF r = "ok"
         THEN LET n == Len(op.recs)
                  responseData == [i \in 1..n |->
                                     Rec(None, StrId(nextSrv + i - 1), op.recs[i],
                                         op.user, op.rec.ts)]
                  syncedItems == MapAll(responseData)
              IN /\ server' = [server EXCEPT ![endpoint] = @ \cup SeqToSet(responseData)]
                 /\ nextSrv' = nextSrv + n
                 /\ db' = [db EXCEPT ![endpoint] = PutAll(@, WithUser(syncedItems, op.user))]
                 /\ cache' = NoCache
                 /\ changed' = TRUE
                 /\ items' = SortDesc(Dedup(items \o syncedItems, <<>>))
                 /\ done' = Finish(op, "ok", "none", 0)
         ELSE /\ done' = Finish(op, "error", IF r = "net" THEN "net" ELSE "app", 0)
              /\ UNCHANGED <<server, nextSrv, db, cache, changed, items>>
  /\ op' = IdleOp
  /\ UNCHANGED <<navOnline, isOnline, syncInProgress, syncQueue, nextKey,
                 nextTmp, writes, endpoint, userId, lastSync, qa, sync, load,
                 acked, everQueued, born, reentered, rejected, observe,
                 storedUserId, logins, pushed, made, apiCache, requestManager, idGenerator, ws, websocketManager, due>>

(***************************************************************************)
(* reloadFromIndexedDB and the real-time push of a created sale.           *)
(***************************************************************************)
\* lines 1604-1621: a Map keyed by String(_id || id); a later value of a key
\* replaces the earlier one in place, a record without an id is skipped
RECURSIVE MergeById(_, _)
MergeById(m, s) ==
  IF s = <<>> THEN m
  ELSE LET x == Head(s)
           hit == {k \in 1..Len(m) : IdOf(m[k]) = IdOf(x)}
       IN IF IdOf(x) = None THEN MergeById(m, Tail(s))
          ELSE IF hit = {} THEN MergeById(Append(m, x), Tail(s))
          ELSE MergeById([m EXCEPT ![CHOOSE k \in hit : TRUE] = x], Tail(s))

\* reloadFromIndexedDB, lines 1569-1640: the owner's records of the Local
\* Store are merged into the view
ItemsAfterReload ==
  LET filteredItems == OwnedBy(getAllItems(db[endpoint]), userId)
      mappedItems == IF endpoint = "sales" THEN SortDesc(MapAll(filteredItems))
                                           ELSE MapAll(filteredItems)
      merged == MergeById(<<>>, items \o mappedItems)
  IN IF filteredItems = <<>> THEN items
     ELSE IF endpoint = "sales" THEN SortDesc(merged) ELSE merged

ReloadFromIndexedDB ==
  /\ items' = IF authenticated THEN ItemsAfterReload ELSE items
  /\ pushed' = {<<p[1], "reloaded">> : p \in pushed}
  /\ UNCHANGED <<navOnline, isOnline, syncInProgress, syncQueue, nextKey, db,
                 server, nextSrv, nextTmp, writes, endpoint, userId, cache,
                 changed, lastSync, op, qa, sync, load, acked, everQueued, done,
                 born, reentered, rejected, observe, storedUserId, logins, made, apiCache, requestManager, idGenerator, ws, websocketManager, due>>

\* the 'sale:created' subscriber, lines 1699-1723: the pushed sale replaces
\* the record of its id or is put first; reloadFromIndexedDB follows
PushSaleCreated ==
  /\ endpoint = "sales"
  /\ \E x \in server["sales"] :
       /\ x.sid \notin {p[1] : p \in pushed}
       /\ items' = IF ExistsById(items, x.sid)
                     THEN ReplaceById(items, x.sid, x)
                     ELSE <<x>> \o items
       /\ pushed' = pushed \cup {<<x.sid, "pushed">>}
  /\ UNCHANGED <<navOnline, isOnline, syncInProgress, syncQueue, nextKey, db,
                 server, nextSrv, nextTmp, writes, endpoint, userId, cache,
                 changed, lastSync, op, qa, sync, load, acked, everQueued, done,
                 born, reentered, rejected, observe, storedUserId, logins, made, apiCache, requestManager, idGenerator, ws, websocketManager, due>>

(***************************************************************************)
(* The setItems updater of add (lines 829-880) and bulkAdd (lines          *)
(* 1454-1493) for sales: the list "updated" is deduplicated, then sorted.  *)
(***************************************************************************)
DedupPass ==
  /\ op.pc = "dedup"
  /\ items' = Dedup(op.updated, <<>>)
  /\ op' = [op EXCEPT !.pc = "sort"]
  /\ UNCHANGED <<navOnline, isOnline, syncInProgress, syncQueue, nextKey, db,
                 server, nextSrv, nextTmp, writes, endpoint, userId, cache,
                 changed, lastSync, qa, sync, load, acked, everQueued, done,
                 born, reentered, rejected, observe, storedUserId, logins,
                 pushed, made, apiCache, requestManager, idGenerator, ws, websocketManager, due>>

SortPass ==
  /\ op.pc = "sort"
  /\ items' = SortDesc(items)
  /\ op' = [op EXCEPT !.pc = "set"]
  /\ UNCHANGED <<navOnline, isOnline, syncInProgress, syncQueue, nextKey, db,
                 server, nextSrv, nextTmp, writes, endpoint, userId, cache,
                 changed, lastSync, qa, sync, load, acked, everQueued, done,
                 born, reentered, rejected, observe, storedUserId, logins,
                 pushed, made, apiCache, requestManager, idGenerator, ws, websocketManager, due>>

(***************************************************************************)
(* Other sessions of the owner.  The remote store is shared with the       *)
(* owner's other devices, which delete records through the same remote API *)
(* (the server then pushes "<entity>:deleted", useApi.ts lines 1684-1695   *)
(* and 1739-1750).                                                         *)
(***************************************************************************)
RemoteDelete ==
  /\ \E x \in server[endpoint] :
       server' = [server EXCEPT ![endpoint] = @ \ {x}]
  /\ UNCHANGED <<navOnline, isOnline, syncInProgress, syncQueue, nextKey, db,
                 nextSrv, nextTmp, writes, endpoint, userId, items, cache,
                 changed, lastSync, op, qa, sync, load, acked, everQueued, done,
                 born, reentered, rejected, observe, storedUserId, logins, pushed, made, apiCache, requestManager, idGenerator, ws, websocketManager, due>>

(***************************************************************************)
(* Sessions.  The session provider is localStorage "profit-pilot-user-id". *)
(* A logout removes it, and the hook empties its view (checkUserId,        *)
(* useApi.ts lines 678-685).  A login arrives with a page load (App.tsx    *)
(* lines 300-322): the state in memory starts afresh, the Local Store, the *)
(* Mutation Queue and localStorage are kept.                               *)
(***************************************************************************)
\* Sidebar.handleLogoutConfirm (src/unnamed/part_002 lines 59-77), and the
\* same in AdminSidebar.tsx lines 86-95 and AdminBottomNav.tsx line 53
LogoutSidebar ==
  /\ authenticated /\ op.pc = "idle" /\ load.pc = "idle"
  /\ userId' = Absent
  /\ items' = <<>>
  /\ UNCHANGED <<navOnline, isOnline, syncInProgress, syncQueue, nextKey, db,
                 server, nextSrv, nextTmp, writes, endpoint, cache, changed,
                 lastSync, op, qa, sync, load, acked, everQueued, born,
                 reentered, done, rejected, observe, storedUserId, logins,
                 pushed, made, apiCache, requestManager, idGenerator, ws, websocketManager, due>>

\* BottomNav.handleLogoutConfirm (BottomNav.tsx lines 60-79): the object
\* stores and the Mutation Queue are cleared first
LogoutBottomNav ==
  /\ authenticated /\ op.pc = "idle" /\ load.pc = "idle"
  /\ db' = [st \in StoreNames |-> {}]
  /\ syncQueue' = <<>>
  /\ userId' = Absent
  /\ items' = <<>>
  /\ UNCHANGED <<navOnline, isOnline, syncInProgress, nextKey, server,
                 nextSrv, nextTmp, writes, endpoint, cache, changed,
                 lastSync, op, qa, sync, load, acked, everQueued, born,
                 reentered, done, rejected, observe, storedUserId, logins,
                 pushed, made, apiCache, requestManager, idGenerator, ws, websocketManager, due>>

\* App.tsx lines 300-322: the page is loaded with the session of user u
Login(u) ==
  /\ ~authenticated /\ logins < MaxLogins
  /\ op.pc = "idle" /\ load.pc = "idle" /\ qa.pc = "idle"
  /\ \A c \in Callers : sync[c].pc = "idle"
  /\ userId' = u
  /\ logins' = logins + 1
  /\ items' = <<>>
  /\ cache' = NoCache
  /\ isOnline' = navOnline
  /\ syncInProgress' = FALSE
  /\ reentered' = FALSE
  /\ UNCHANGED <<navOnline, syncQueue, nextKey, db, server, nextSrv, nextTmp,
                 writes, endpoint, changed, lastSync, op, qa, sync, load,
                 acked, everQueued, born, done, rejected, observe,
                 storedUserId, pushed, made, apiCache, requestManager, idGenerator, ws, websocketManager, due>>

\* The session of user u arrives in another tab of the same origin (App.tsx
\* lines 303-337 run in that tab).  localStorage is shared, which the
\* listeners of this tab attend to (useApi.ts lines 688-694,
\* ProtectedRoute.tsx lines 60-66: "logout from another tab/window");
\* this page is not loaded again, so its memory is kept: the apiCache, the
\* Sync Manager's flags and the calls in flight
OtherTabLogin(u) ==
  /\ ~authenticated /\ logins < MaxLogins
  /\ userId' = u
  /\ logins' = logins + 1
  /\ UNCHANGED <<navOnline, isOnline, syncInProgress, syncQueue, nextKey, db,
                 server, nextSrv, nextTmp, writes, endpoint, items, cache,
                 changed, lastSync, op, qa, sync, load, acked, everQueued,
                 born, reentered, done, rejected, observe, storedUserId,
                 pushed, made, apiCache, requestManager, idGenerator, ws,
                 websocketManager, due>>

\* loadData of the hook of another endpoint e, lines 69-84: the user-change
\* check clears the store of e and stores the user id under the one key all
\* hooks share
OtherHookLoadData ==
  /\ authenticated /\ storedUserId # userId
  /\ \E e \in Endpoints \ {endpoint} :
       db' = [db EXCEPT ![e] = IF storedUserId # Absent THEN {} ELSE @]
  /\ storedUserId' = userId
  /\ UNCHANGED <<navOnline, isOnline, syncInProgress, syncQueue, nextKey,
                 server, nextSrv, nextTmp, writes, endpoint, userId, items,
                 cache, changed, lastSync, op, qa, sync, load, acked,
                 everQueued, born, reentered, done, rejected, observe,
                 logins, pushed, made, apiCache, requestManager, idGenerator, ws, websocketManager, due>>

(***************************************************************************)
(* useLocalStorage (src/unnamed/part_010 lines 134-283): every write goes  *)
(* to the Local Store and to queueAction.                                  *)
(***************************************************************************)
LsAdd ==
  /\ ~isOnline \/ Room(1)
  /\ writes < MaxWrites /\ qa.pc = "idle"
  /\ \E st \in LsStores, c \in Contents :
       LET itemToAdd == Rec(NumId(nextTmp), None, c, Absent, 0)
       IN /\ db' = [db EXCEPT ![st] = PutRec(@, itemToAdd)]
          /\ QueueAction("create", st, itemToAdd, "ls")
  /\ nextTmp' = nextTmp + 1
  /\ writes' = writes + 1
  /\ due' = IF isOnline THEN Triggered(1) ELSE due
  /\ UNCHANGED <<navOnline, isOnline, syncInProgress, server, nextSrv, endpoint,
                 userId, items, cache, changed, lastSync, op, sync, load, acked,
                 done,
                 born, reentered, rejected, observe, storedUserId, logins, pushed, made, apiCache, requestManager, idGenerator, ws, websocketManager>>

LsUpdate ==
  /\ ~isOnline \/ Room(1)
  /\ writes < MaxWrites /\ qa.pc = "idle"
  /\ \E st \in LsStores, c \in Contents :
       \E x \in db[st] :
         LET item == [x EXCEPT !.c = c]
         IN /\ item # x
            /\ db' = [db EXCEPT ![st] = PutRec(@, item)]
            /\ QueueAction("update", st, item, "ls")
  /\ writes' = writes + 1
  /\ due' = IF isOnline THEN Triggered(1) ELSE due
  /\ UNCHANGED <<navOnline, isOnline, syncInProgress, server, nextSrv, nextTmp,
                 endpoint, userId, items, cache, changed, lastSync, op, sync,
                 load, acked, done,
                 born, reentered, rejected, observe, storedUserId, logins, pushed, made, apiCache, requestManager, idGenerator, ws, websocketManager>>

LsRemove ==
  /\ ~isOnline \/ Room(1)
  /\ writes < MaxWrites /\ qa.pc = "idle"
  /\ \E st \in LsStores :
       \E x \in db[st] :
         /\ db' = [db EXCEPT ![st] = DelKey(@, x.id)]
         /\ QueueAction("delete", st, Rec(x.id, None, Absent, Absent, 0), "ls")
  /\ writes' = writes + 1
  /\ due' = IF isOnline THEN Triggered(1) ELSE due
  /\ UNCHANGED <<navOnline, isOnline, syncInProgress, server, nextSrv, nextTmp,
                 endpoint, userId, items, cache, changed, lastSync, op, sync,
                 load, acked, done,
                 born, reentered, rejected, observe, storedUserId, logins, pushed, made, apiCache, requestManager, idGenerator, ws, websocketManager>>

(***************************************************************************)
(* The Response Cache: ApiCacheManager (websocketManager.ts lines 72-198). *)
(* A key is the text of the endpoint followed by the JSON text of the      *)
(* params, kept here as the sequence of its pieces; the cache is the Map   *)
(* in insertion order.  Time is counted in ticks of the clock.  The etag   *)
(* and the version of an entry are written and never read: left out.      *)
(***************************************************************************)
\* websocketManager.ts:86
MAX_CACHE_SIZE == 100
\* websocketManager.ts:85, in ticks
CACHE_DURATION == 1
\* the clock stops here
MaxNow == 3
\* the path the hook asks for: `/${endpoint}`
PathOf(store) == <<"/", store>>

\* getCacheKey, lines 103-106: `${endpoint}${paramStr}`
getCacheKey(path, params) ==
  path \o (IF params = 0 THEN <<>> ELSE <<ToString(params)>>)

\* a test that finds a text in no key
includesNothing(s, p) == FALSE

\* String.prototype.includes: p occurs in s
includes(s, p) ==
  \E i \in 0..(Len(s) - Len(p)) : SubSeq(s, i + 1, i + Len(p)) = p

\* Map.get: the positions of the key in the Map (none or one)
At(c, key) == {k \in 1..Len(c) : c[k].key = key}

\* Map.delete
Without(c, key) == SelectSeq(c, LAMBDA e : e.key # key)

\* get, line 118: now - cached.timestamp > CACHE_DURATION
expired(e, now) == now - e.timestamp > CACHE_DURATION

\* set, lines 134-136: the key of the first entry with the least timestamp
oldestKey(c) ==
  LET k == CHOOSE k \in 1..Len(c) :
             /\ \A j \in 1..Len(c) : c[k].timestamp <= c[j].timestamp
             /\ \A j \in 1..(k - 1) : c[j].timestamp > c[k].timestamp
  IN c[k].key

\* set, lines 128-148: the Map after set(endpoint, data, undefined, params)
AfterSet(c, key, data, now) ==
  LET c1 == IF Len(c) >= MAX_CACHE_SIZE THEN Without(c, oldestKey(c)) ELSE c
      hit == At(c1, key)
      entry == [key |-> key, data |-> data, timestamp |-> now]
  IN IF hit = {} THEN Append(c1, entry)
     ELSE [c1 EXCEPT ![CHOOSE k \in hit : TRUE] = entry]

\* the keys callers use: the list of a store, without and with params
CacheKeys == {getCacheKey(PathOf("sales"), 0), getCacheKey(PathOf("clients"), 1)}

\* history: what get(key) returned, and the call that came before it
Got(key, data) ==
  [op |-> "get", key |-> key, data |-> data, at |-> apiCache.now,
   prev |-> apiCache.last.op, pkey |-> apiCache.last.key]

\* get, lines 109-125
CacheGet ==
  /\ \E key \in CacheKeys :
       LET c == apiCache.cache
           hit == At(c, key)
           cached == c[CHOOSE k \in hit : TRUE]
       IN IF hit = {}
            THEN apiCache' = [apiCache EXCEPT
                   !.last = Got(key, Absent)]
          ELSE IF expired(cached, apiCache.now)
            THEN apiCache' = [apiCache EXCEPT
                   !.cache = Without(c, key),
                   !.last = Got(key, Absent)]
          ELSE apiCache' = [apiCache EXCEPT
                   !.last = Got(key, cached.data)]
  /\ UNCHANGED <<hookVars, requestManager, idGenerator, ws, websocketManager>>

\* set, lines 128-148
CacheSet ==
  /\ \E key \in CacheKeys, data \in Contents :
       apiCache' = [apiCache EXCEPT
         !.cache = AfterSet(apiCache.cache, key, data, apiCache.now),
         !.last = [op |-> "set", key |-> key, data |-> data, at |-> apiCache.now]]
  /\ UNCHANGED <<hookVars, requestManager, idGenerator, ws, websocketManager>>

\* invalidate, lines 151-154
CacheInvalidate ==
  /\ \E key \in CacheKeys :
       apiCache' = [apiCache EXCEPT
         !.cache = Without(apiCache.cache, key),
         !.last = [op |-> "invalidate", key |-> key, data |-> Absent, at |-> 0]]
  /\ UNCHANGED <<hookVars, requestManager, idGenerator, ws, websocketManager>>

\* invalidateStore, lines 157-168
AfterInvalidateStore(c, store) ==
  SelectSeq(c, LAMBDA e : ~includes(e.key, PathOf(store)))

CacheInvalidateStore ==
  /\ \E store \in Endpoints :
       apiCache' = [apiCache EXCEPT
         !.cache = AfterInvalidateStore(apiCache.cache, store),
         !.last = [op |-> "invalidateStore", key |-> PathOf(store),
                   data |-> Absent, at |-> 0]]
  /\ UNCHANGED <<hookVars, requestManager, idGenerator, ws, websocketManager>>

\* clear, lines 171-173
CacheClear ==
  /\ apiCache.cache # <<>>
  /\ apiCache' = [apiCache EXCEPT
       !.cache = <<>>,
       !.last = [op |-> "clear", key |-> <<>>, data |-> Absent, at |-> 0]]
  /\ UNCHANGED <<hookVars, requestManager, idGenerator, ws, websocketManager>>

\* cleanup, lines 176-187, run by the interval timer of the constructor
CacheCleanup ==
  /\ {e \in SeqToSet(apiCache.cache) : expired(e, apiCache.now)} # {}
  /\ apiCache' = [apiCache EXCEPT
       !.cache = SelectSeq(apiCache.cache, LAMBDA e : ~expired(e, apiCache.now)),
       !.last = [op |-> "cleanup", key |-> <<>>, data |-> Absent, at |-> 0]]
  /\ UNCHANGED <<hookVars, requestManager, idGenerator, ws, websocketManager>>

\* Date.now() moves on
CacheTick ==
  /\ apiCache.now < MaxNow
  /\ apiCache' = [apiCache EXCEPT !.now = apiCache.now + 1]
  /\ UNCHANGED <<hookVars, requestManager, idGenerator, ws, websocketManager>>

(***************************************************************************)
(* The Request Coordinator: RequestManager (requestManager.ts).  A promise *)
(* is named by its key and the number of the invocation of fn that made    *)
(* it; pendingRequests is the Map as a set of its entries.                 *)
(***************************************************************************)
\* requestManager.ts:15, in ticks
DEDUPE_WINDOW == 2
\* requestManager.ts:16
MAX_QUEUE_SIZE == 50
\* requestManager.ts:131-132 "up to 10 at a time"
BATCH_SIZE == 10
\* the clock stops here
MaxClock == 5
\* calls of execute and of queue that the callers make
MaxRequests == 2

RequestKeys == {"k1", "k2"}

\* Map.get on pendingRequests
PendingFor(rm, key) == {e \in rm.pendingRequests : e.key = key}

\* a window that is never open
neverFresh(e, now) == FALSE

\* execute, lines 49-50: age < DEDUPE_WINDOW
fresh(e, now) == now - e.timestamp < DEDUPE_WINDOW

\* execute, lines 37-87: the manager after execute(key, fn, {force}), with
\* the promise it returned in `last`
AfterExecute(rm, key, force) ==
  LET pending == PendingFor(rm, key)
      e == CHOOSE e \in pending : TRUE
  IN IF pending # {} /\ ~force /\ fresh(e, rm.now)
       THEN [rm EXCEPT
              !.pendingRequests = (@ \ {e}) \cup
                                    {[e EXCEPT !.subscribers = @ + 1]},
              !.last = [op |-> "execute", key |-> key, force |-> force,
                        promise |-> e.promise, invokes |-> FALSE,
                        at |-> rm.now]]
       ELSE LET promise == <<key, rm.invoked + 1>>
            IN [rm EXCEPT
                 !.pendingRequests = (@ \ pending) \cup
                     {[key |-> key, promise |-> promise,
                       timestamp |-> rm.now, subscribers |-> 1]},
                 !.running = @ \cup {promise},
                 !.invoked = @ + 1,
                 !.last = [op |-> "execute", key |-> key, force |-> force,
                           promise |-> promise, invokes |-> TRUE,
                           at |-> rm.now]]

\* execute, called by a component
Execute ==
  /\ requestManager.calls < MaxRequests
  /\ \E key \in RequestKeys, force \in BOOLEAN :
       requestManager' =
         [AfterExecute(requestManager, key, force) EXCEPT !.calls = @ + 1]
  /\ UNCHANGED <<hookVars, apiCache, idGenerator, ws, websocketManager>>

\* execute, lines 62-76: fn settles, and the timer that will drop the entry
\* is set
RequestSettles ==
  /\ \E promise \in requestManager.running :
       requestManager' = [requestManager EXCEPT
         !.running = @ \ {promise},
         !.timers = @ \cup {[key |-> promise[1],
                             due |-> requestManager.now + DEDUPE_WINDOW]},
         !.last = [op |-> "settle"]]
  /\ UNCHANGED <<hookVars, apiCache, idGenerator, ws, websocketManager>>

\* execute, lines 68-75: the timer fires, at its time or later
TimerFires ==
  /\ \E t \in requestManager.timers :
       /\ requestManager.now >= t.due
       /\ LET current == PendingFor(requestManager, t.key)
              e == CHOOSE e \in current : TRUE
          IN requestManager' = [requestManager EXCEPT
               !.timers = @ \ {t},
               !.pendingRequests =
                  IF current = {} THEN @
                  ELSE IF e.subscribers <= 1 THEN @ \ {e}
                  ELSE (@ \ {e}) \cup {[e EXCEPT !.subscribers = @ - 1]},
               !.last = [op |-> "timer"]]
  /\ UNCHANGED <<hookVars, apiCache, idGenerator, ws, websocketManager>>

\* a queue that never counts as full
neverFull(rm) == FALSE

\* queue, line 99: this.requestQueue.length >= this.MAX_QUEUE_SIZE
queueFull(rm) == Len(rm.requestQueue) >= MAX_QUEUE_SIZE

\* queue, lines 92-115
RequestQueue ==
  /\ requestManager.calls < MaxRequests
  /\ \E key \in RequestKeys :
       LET rm == requestManager
       IN IF queueFull(rm)
            THEN requestManager' = [rm EXCEPT
                   !.calls = @ + 1,
                   !.last = [op |-> "queue", key |-> key, rejected |-> TRUE]]
            ELSE requestManager' = [rm EXCEPT
                   !.calls = @ + 1,
                   !.requestQueue = Append(@, key),
                   !.isProcessingQueue = TRUE,
                   !.pc = IF rm.isProcessingQueue THEN @ ELSE "delay",
                   !.last = [op |-> "queue", key |-> key, rejected |-> FALSE]]
  /\ UNCHANGED <<hookVars, apiCache, idGenerator, ws, websocketManager>>

\* processQueue, lines 133-141: execute(key, fn) for every request of the
\* batch, one after the other within one turn: the first request of a key
\* without a fresh entry invokes fn, the others of the key subscribe to it
ExecuteAll(rm, keys) ==
  LET asked == {keys[k] : k \in 1..Len(keys)}
      count(key) == Cardinality({k \in 1..Len(keys) : keys[k] = key})
      first(key) == CHOOSE k \in 1..Len(keys) :
                      keys[k] = key /\ \A j \in 1..(k - 1) : keys[j] # key
      joins(key) == \E e \in PendingFor(rm, key) : fresh(e, rm.now)
      invoking == {key \in asked : ~joins(key)}
      rank(key) == Cardinality({j \in invoking : first(j) <= first(key)})
      entry(key) ==
        IF joins(key)
          THEN LET e == CHOOSE e \in PendingFor(rm, key) : TRUE
               IN [e EXCEPT !.subscribers = @ + count(key)]
          ELSE [key |-> key, promise |-> <<key, rm.invoked + rank(key)>>,
                timestamp |-> rm.now, subscribers |-> count(key)]
  IN [rm EXCEPT
       !.pendingRequests = {e \in @ : e.key \notin asked} \cup
                             {entry(key) : key \in asked},
       !.running = @ \cup {entry(key).promise : key \in invoking},
       !.invoked = @ + Cardinality(invoking),
       !.batch = {entry(key).promise : key \in asked}]

\* processQueue, lines 127-141: after the batch delay the next batch is taken
\* off the queue and executed
ProcessBatch ==
  /\ requestManager.pc = "delay"
  /\ LET rm == requestManager
         n == IF Len(rm.requestQueue) < BATCH_SIZE THEN Len(rm.requestQueue)
              ELSE BATCH_SIZE
         batch == SubSeq(rm.requestQueue, 1, n)
         rest == SubSeq(rm.requestQueue, n + 1, Len(rm.requestQueue))
     IN requestManager' =
          [ExecuteAll([rm EXCEPT !.requestQueue = rest], batch) EXCEPT
             !.pc = "wait", !.last = [op |-> "batch"]]
  /\ UNCHANGED <<hookVars, apiCache, idGenerator, ws, websocketManager>>

\* processQueue, lines 125-147: the batch has settled; the loop goes on while
\* the queue holds requests
BatchSettled ==
  /\ requestManager.pc = "wait"
  /\ requestManager.batch \cap requestManager.running = {}
  /\ requestManager' = [requestManager EXCEPT
       !.batch = {},
       !.pc = IF Len(requestManager.requestQueue) > 0 THEN "delay" ELSE "idle",
       !.isProcessingQueue = Len(requestManager.requestQueue) > 0,
       !.last = [op |-> "batchSettled"]]
  /\ UNCHANGED <<hookVars, apiCache, idGenerator, ws, websocketManager>>

\* cancel, lines 154-156
RequestCancel ==
  /\ \E key \in RequestKeys :
       /\ PendingFor(requestManager, key) # {}
       /\ requestManager' = [requestManager EXCEPT
            !.pendingRequests = @ \ PendingFor(requestManager, key),
            !.last = [op |-> "cancel"]]
  /\ UNCHANGED <<hookVars, apiCache, idGenerator, ws, websocketManager>>

\* clear, lines 161-164
RequestClear ==
  /\ requestManager.pendingRequests # {} \/ requestManager.requestQueue # <<>>
  /\ requestManager' = [requestManager EXCEPT
       !.pendingRequests = {}, !.requestQueue = <<>>, !.last = [op |-> "clear"]]
  /\ UNCHANGED <<hookVars, apiCache, idGenerator, ws, websocketManager>>

\* cleanup, lines 179-193, run by the interval timer of the constructor
RequestCleanup ==
  /\ LET old == {e \in requestManager.pendingRequests :
                   requestManager.now - e.timestamp > DEDUPE_WINDOW * 2}
     IN /\ old # {}
        /\ requestManager' = [requestManager EXCEPT
             !.pendingRequests = @ \ old, !.last = [op |-> "cleanup"]]
  /\ UNCHANGED <<hookVars, apiCache, idGenerator, ws, websocketManager>>

\* Date.now() moves on
RequestTick ==
  /\ requestManager.now < MaxClock
  /\ requestManager' = [requestManager EXCEPT !.now = @ + 1]
  /\ UNCHANGED <<hookVars, apiCache, idGenerator, ws, websocketManager>>

(***************************************************************************)
(* The Identifier Generator (idGenerator.ts).  An id is a JavaScript       *)
(* number, a double.  Date.now() * 10000 lies between 2^53 and 2^54 for    *)
(* every clock from 1998 to 2027, where a double holds the even integers   *)
(* only; it is a multiple of 16, so that the rounding of a sum is decided  *)
(* by what is added to it.  A number is kept as its distance v from        *)
(* Date.now() * 10000 at the start (big), or as itself when it is a small  *)
(* integer such as a server-side numeric id.                               *)
(***************************************************************************)
\* idGenerator.ts:5
MAX_COUNTER == 9999
\* the clock stops here, in milliseconds
MaxMs == 1
\* calls of generateUniqueId
MaxIds == 3

\* Math.floor(Math.random() * 1000): the values drawn
Randoms == {0, 1, 999}

Big(v) == [big |-> TRUE, v |-> v]
Small(v) == [big |-> FALSE, v |-> v]

\* the double nearest to the integer x between 2^53 and 2^54: x when it is
\* even, else the neighbour with the even mantissa, a multiple of 4
double(x) ==
  IF x % 2 = 0 THEN x ELSE IF (x + 1) % 4 = 0 THEN x + 1 ELSE x - 1

\* a < b on numbers
Less(a, b) == (~a.big /\ b.big) \/ (a.big = b.big /\ a.v < b.v)

\* Math.max of a non-empty set, and of two numbers
MaxOf(S) == CHOOSE m \in S : \A x \in S : ~Less(m, x)
Max2(a, b) == IF Less(a, b) THEN b ELSE a

\* maxId + 1, line 38
PlusOne(a) == IF a.big THEN Big(double(a.v + 1)) ELSE Small(a.v + 1)

\* generateUniqueId, lines 12-21: the counter after the call
NextCounter(counter) == (counter + 1) % MAX_COUNTER

\* generateUniqueId, lines 12-21: the value returned
UniqueId(now, random, counter) ==
  Big(double(double(now * 10000 + random * 10) + NextCounter(counter)))

\* generateUniqueId, called by the hook (useApi.ts:732)
GenerateUniqueId ==
  /\ Len(idGenerator.issued) < MaxIds
  /\ \E random \in Randoms :
       LET id == UniqueId(idGenerator.now, random, idGenerator.counter)
       IN idGenerator' = [idGenerator EXCEPT
            !.counter = NextCounter(@),
            !.issued = Append(@, id),
            !.last = [op |-> "generateUniqueId", items |-> {}, newId |-> id,
                      result |-> id]]
  /\ UNCHANGED <<hookVars, apiCache, requestManager, ws, websocketManager>>

\* the ids of the records a caller holds: ids the generator gave out, and a
\* numeric id of the server's
ExistingIds == SeqToSet(idGenerator.issued) \cup {Small(7)}

\* getNextId, lines 27-39
NextIdAfter(ids, newId) ==
  IF ids = {} THEN newId ELSE Max2(newId, PlusOne(MaxOf(ids)))

GetNextId ==
  /\ Len(idGenerator.issued) < MaxIds
  /\ \E random \in Randoms, ids \in SUBSET ExistingIds :
       LET newId == UniqueId(idGenerator.now, random, idGenerator.counter)
       IN idGenerator' = [idGenerator EXCEPT
            !.counter = NextCounter(@),
            !.issued = Append(@, newId),
            !.last = [op |-> "getNextId", items |-> ids, newId |-> newId,
                      result |-> NextIdAfter(ids, newId)]]
  /\ UNCHANGED <<hookVars, apiCache, requestManager, ws, websocketManager>>

\* Date.now() moves on by a millisecond
IdTick ==
  /\ idGenerator.now < MaxMs
  /\ idGenerator' = [idGenerator EXCEPT !.now = @ + 1]
  /\ UNCHANGED <<hookVars, apiCache, requestManager, ws, websocketManager>>

(***************************************************************************)
(* The Real-Time Channel hook (useWebSocket.ts).  connect is a useCallback *)
(* that reads the state reconnectAttempts of the render that made it; the  *)
(* mount effect runs once and keeps the connect of the first render, and   *)
(* the connect that a timer calls is the one that scheduled the timer.     *)
(* Each socket carries the value its connect captured.                     *)
(***************************************************************************)
\* useWebSocket.ts:25
reconnectInterval == 3000
\* useWebSocket.ts:26
maxReconnectAttempts == 10
\* reconnections counted
MaxAttempts == 11

\* every hook variable but navigator.onLine
hookButNav == <<isOnline, syncInProgress, syncQueue, nextKey, db, server,
                nextSrv, nextTmp, writes, endpoint, userId, items, cache,
                changed, lastSync, op, qa, sync, load, acked, everQueued, done,
                born, reentered, rejected, observe, storedUserId, logins,
                pushed, made, due>>

\* a socket object that is gone: closed, with no timer of its onclose left
FreeSlots(w) ==
  {k \in 1..MaxSockets :
     /\ w.sockets[k].state \in {"none", "closed"}
     /\ \A t \in w.timers : t.by # k}

\* connect, lines 35-142, made by a render whose reconnectAttempts was c
connect(w, c) ==
  IF userId = Absent THEN w
  ELSE LET k == CHOOSE f \in FreeSlots(w) : \A g \in FreeSlots(w) : f <= g
       IN [w EXCEPT !.sockets[k] = [state |-> "connecting", captured |-> c],
                    !.wsRef = k]

\* disconnect, lines 144-161
disconnect(w) ==
  [w EXCEPT
     !.timers = {t \in @ : t.by # w.timeoutRef},
     !.timeoutRef = 0,
     !.ping = FALSE,
     !.sockets = [k \in 1..MaxSockets |->
        IF k = w.wsRef /\ @[k].state \in {"connecting", "open"}
        THEN [@[k] EXCEPT !.state = "closing"] ELSE @[k]],
     !.wsRef = 0,
     !.isConnected = FALSE]

\* the mount effect, lines 172-201
WsMount ==
  /\ ws.mounted = "no"
  /\ FreeSlots(ws) # {}
  /\ LET w == [ws EXCEPT !.mounted = "yes", !.mountUser = userId,
                         !.held = ws.reconnectAttempts]
     IN ws' = IF userId # Absent /\ navOnline
              THEN connect(w, w.held) ELSE w
  /\ UNCHANGED <<hookVars, apiCache, requestManager, idGenerator, websocketManager>>

\* ws.onopen, lines 52-71
WsOpen ==
  /\ navOnline
  /\ \E k \in 1..MaxSockets :
       /\ ws.sockets[k].state = "connecting"
       /\ ws' = [ws EXCEPT !.sockets[k].state = "open",
                           !.isConnected = TRUE,
                           !.reconnectAttempts = 0,
                           !.ping = TRUE,
                           !.made = 0]
  /\ UNCHANGED <<hookVars, apiCache, requestManager, idGenerator, websocketManager>>

\* line 120: reconnectInterval * Math.pow(2, reconnectAttempts)
delay(c) == reconnectInterval * 2^c

\* ws.onclose, lines 106-137: the server or the network closes the socket,
\* or the close that disconnect asked for completes
WsClose ==
  /\ \E k \in 1..MaxSockets :
       /\ ws.sockets[k].state \in {"connecting", "open", "closing"}
       /\ LET c == ws.sockets[k].captured
              w == [ws EXCEPT !.sockets[k].state = "closed",
                              !.isConnected = FALSE,
                              !.ping = FALSE]
          IN ws' = IF navOnline /\ c < maxReconnectAttempts
                   THEN [w EXCEPT
                           !.timers = @ \cup {[by |-> k, delay |-> delay(c),
                                               captured |-> c,
                                               made |-> ws.made]},
                           !.timeoutRef = k]
                   ELSE w
  /\ UNCHANGED <<hookVars, apiCache, requestManager, idGenerator, websocketManager>>

\* the setTimeout callback of onclose, lines 123-131
WsTimer ==
  /\ \E t \in ws.timers :
       LET w == [ws EXCEPT !.timers = @ \ {t}]
       IN IF navOnline
          THEN /\ ws.made < MaxAttempts
               /\ FreeSlots(w) # {}
               /\ ws' = connect([w EXCEPT !.reconnectAttempts = @ + 1,
                                          !.made = @ + 1], t.captured)
          ELSE ws' = w
  /\ UNCHANGED <<hookVars, apiCache, requestManager, idGenerator, websocketManager>>

\* the browser goes offline: handleOffline, lines 184-192, while the
\* listeners of the mount effect are registered
WsOffline ==
  /\ navOnline
  /\ navOnline' = FALSE
  /\ ws' = IF ws.mounted = "yes" THEN disconnect(ws) ELSE ws
  /\ UNCHANGED <<hookButNav, apiCache, requestManager, idGenerator, websocketManager>>

\* the browser comes back online: handleOnline, lines 176-182
WsOnline ==
  /\ ~navOnline
  /\ navOnline' = TRUE
  /\ IF ws.mounted = "yes" /\ ws.mountUser # Absent /\ ws.wsRef = 0
     THEN /\ FreeSlots(ws) # {}
          /\ ws' = connect([ws EXCEPT !.reconnectAttempts = 0, !.made = 0],
                           ws.held)
     ELSE ws' = ws
  /\ UNCHANGED <<hookButNav, apiCache, requestManager, idGenerator, websocketManager>>

\* the cleanup of the mount effect, lines 203-207
WsUnmount ==
  /\ ws.mounted = "yes"
  /\ ws' = [disconnect(ws) EXCEPT !.mounted = "gone"]
  /\ UNCHANGED <<hookVars, apiCache, requestManager, idGenerator, websocketManager>>

(***************************************************************************)
(* The push registry (websocketManager.ts lines 4-70).  listeners is a Map *)
(* from a message type to a Set of callbacks, kept here as a function from *)
(* the types present to the callbacks in insertion order.  Every caller    *)
(* subscribes a closure of its own (useApi.ts lines 1652-1751), so that a  *)
(* callback belongs to one subscribe call; none of them subscribes or      *)
(* unsubscribes while it runs.                                             *)
(***************************************************************************)
\* subscribe calls
MaxSubs == 4

\* message types, the last one with no subscriber in the program
EventTypes == {"sale:created", "sale:updated"}
MessageTypes == EventTypes \cup {"pong2"}

\* Map.get, or the empty Set
CallbacksFor(l, t) == IF t \in DOMAIN l THEN l[t] ELSE <<>>

\* subscribe, lines 23-27
AfterSubscribe(l, t, cb) ==
  [u \in DOMAIN l \cup {t} |->
     IF u = t THEN Append(CallbacksFor(l, t), cb) ELSE l[u]]

\* the unsubscribe function, lines 30-38
AfterUnsubscribe(l, t, cb) ==
  IF t \notin DOMAIN l THEN l
  ELSE LET rest == SelectSeq(l[t], LAMBDA c : c # cb)
       IN IF rest = <<>> THEN [u \in DOMAIN l \ {t} |-> l[u]]
          ELSE [l EXCEPT ![t] = rest]

Subscribe ==
  /\ websocketManager.made < MaxSubs
  /\ \E t \in EventTypes, throws \in BOOLEAN :
       LET cb == [id |-> websocketManager.made + 1, throws |-> throws]
       IN websocketManager' = [websocketManager EXCEPT
            !.listeners = AfterSubscribe(@, t, cb),
            !.made = @ + 1,
            !.subs = @ \cup {[cb |-> cb, type |-> t]},
            !.last = [op |-> "subscribe"]]
  /\ UNCHANGED <<hookVars, apiCache, requestManager, idGenerator, ws>>

\* the unsubscribe function of an earlier subscribe call, called once or again
Unsubscribe ==
  /\ \E s \in websocketManager.subs \cup
              {[cb |-> c, type |-> t] : c \in websocketManager.cancelled,
                                        t \in EventTypes} :
       websocketManager' = [websocketManager EXCEPT
         !.listeners = AfterUnsubscribe(@, s.type, s.cb),
         !.subs = @ \ {s},
         !.cancelled = @ \cup {s.cb},
         !.last = [op |-> "unsubscribe"]]
  /\ UNCHANGED <<hookVars, apiCache, requestManager, idGenerator, ws>>

\* the loop stops at a callback that throws
stopsAtThrow(cb) == ~cb.throws

\* lines 46-50: the try/catch around a callback lets the loop go on
goesOn(cb) == TRUE

\* handleMessage, lines 42-53: the callbacks invoked, in order
Invoked(cbs) ==
  LET stop == {i \in 1..Len(cbs) : ~goesOn(cbs[i])}
  IN IF stop = {} THEN cbs
     ELSE SubSeq(cbs, 1, CHOOSE i \in stop : \A j \in stop : i <= j)

HandleMessage ==
  /\ \E t \in MessageTypes :
       websocketManager' = [websocketManager EXCEPT
         !.last = [op |-> "handleMessage", type |-> t,
                   invoked |-> Invoked(CallbacksFor(websocketManager.listeners, t)),
                   subs |-> websocketManager.subs,
                   cancelled |-> websocketManager.cancelled]]
  /\ UNCHANGED <<hookVars, apiCache, requestManager, idGenerator, ws>>

\* SyncManager with its triggers: connectivity events and syncAll callers
NextSync ==
  \/ NetChange
  \/ HandleConnectivity
  \/ QaAnswer
  \/ \E c \in Callers : SyncAllStart(c)
  \/ \E c \in Callers : SyncRead(c)
  \/ \E c \in Callers : SyncStep(c)
  \/ \E c \in Callers : SyncAnswer(c)
  \/ \E c \in Callers : SyncPrune(c)

\* the Sync Manager driven by the useLocalStorage writes
Next ==
  \/ NextSync
  \/ LsAdd
  \/ LsUpdate
  \/ LsRemove

Spec == Init /\ [][Next]_vars

\* the Sync Manager driven by the useApi hook of one endpoint
NextApi ==
  \/ NextSync
  \/ ApiAdd
  \/ ApiUpdate
  \/ ApiRemove
  \/ ApiAnswer
  \/ LoadData
  \/ LoadAnswer

InitApi == InitWith(0, Endpoints)

SpecApi == InitApi /\ [][NextApi]_vars

\* the Sync Manager driven by the useLocalStorage writes, keeping the
\* history of the rejected replays
InitReplay == InitObserving(0, {"clients"}, {"rejected"})

SpecReplay == InitReplay /\ [][Next]_vars

\* a queue that already holds about KEEP_SYNCED settled mutations
InitPrune == \E h \in {KEEP_SYNCED - 1, KEEP_SYNCED} : InitWith(h, {"clients"})

SpecPrune == InitPrune /\ [][Next]_vars

\* the hook of the clients endpoint, while another device of the owner
\* deletes records on the remote store
NextShared ==
  \/ NextApi
  \/ RemoteDelete

InitShared == InitWith(0, {"clients"})

SpecShared == InitShared /\ [][NextShared]_vars

\* the hook of the sales endpoint with the server's real-time pushes,
\* keeping the history of the records its creates made
NextPush ==
  \/ NetChange
  \/ ApiAdd \/ ApiUpdate \/ ApiRemove \/ RemoteHandles \/ ApiAnswer
  \/ LoadData \/ LoadAnswer
  \/ PushSaleCreated \/ ReloadFromIndexedDB

InitPush == InitObserving(0, {"sales"}, {"made"})

SpecPush == InitPush /\ [][NextPush]_vars

\* the sales hook with callers that may record a sale under an earlier date
InitDated == InitObserving(0, {"sales"}, {"dated"})

SpecDated == InitDated /\ [][NextPush]_vars

\* the sale records a list can hold: a temporary or a server id, a content,
\* a moment of the first or of the second day
SaleRecords ==
  {Rec(NumId(k), None, c, "u1", t) : k \in 1..2, c \in Contents, t \in {1, TicksPerDay + 1}}
  \cup
  {Rec(StrId(k), StrId(k), c, "u1", t) : k \in 1..2, c \in Contents, t \in {1, TicksPerDay + 1}}

RECURSIVE ListsUpTo(_)
ListsUpTo(n) ==
  IF n = 0 THEN {<<>>}
  ELSE LET shorter == ListsUpTo(n - 1)
       IN shorter \cup {Append(l, x) : l \in {m \in shorter : Len(m) = n - 1},
                                        x \in SaleRecords}

\* the dedup pass of the sales hook, applied to the lists of up to MaxLen
\* sale records
InitDedup ==
  \E l \in ListsUpTo(MaxLen) :
    InitAt(0, {"sales"}, {}, [pc |-> "dedup", updated |-> l])

NextDedup == DedupPass \/ SortPass

SpecDedup == InitDedup /\ [][NextDedup]_vars

\* the hook of the sales or the clients endpoint with queueAction, over a
\* logout and the login of the same or of another user
NextSession ==
  \/ NetChange \/ HandleConnectivity \/ QaAnswer
  \/ ApiAdd \/ ApiUpdate \/ ApiRemove \/ ApiAnswer
  \/ ApiBulkAdd \/ ApiBulkAnswer
  \/ LoadData \/ LoadAnswer
  \/ ReloadFromIndexedDB
  \/ LogoutSidebar \/ LogoutBottomNav
  \/ \E u \in Users : Login(u)
  \/ OtherHookLoadData

InitSession == InitWith(0, {"sales", "clients"})

SpecSession == InitSession /\ [][NextSession]_vars

\* the clients hook over a logout and a login that arrives either with a
\* load of this page or in another tab
NextTabs ==
  \/ QaAnswer
  \/ ApiAdd \/ ApiAnswer
  \/ LoadData \/ LoadAnswer
  \/ LogoutSidebar \/ LogoutBottomNav
  \/ \E u \in Users : Login(u)
  \/ \E u \in Users : OtherTabLogin(u)
  \/ OtherHookLoadData

InitTabs == InitWith(0, {"clients"})

SpecTabs == InitTabs /\ [][NextTabs]_vars

\* the writes of the clients hook and the Sync Manager, over a logout and
\* the login of the same or of another user
NextHandover ==
  \/ NextSync
  \/ ApiAdd \/ ApiUpdate \/ ApiRemove \/ ApiAnswer
  \/ LogoutSidebar \/ LogoutBottomNav
  \/ \E u \in Users : Login(u)

InitHandover == InitWith(0, {"clients"})

SpecHandover == InitHandover /\ [][NextHandover]_vars

\* the operations of one hook before and after a logout, on a connection that
\* does not change: either logout handler leaves the hook without an owner
NextSignedOut ==
  \/ ApiAdd \/ ApiUpdate \/ ApiRemove \/ ApiAnswer \/ QaAnswer
  \/ ApiBulkAdd \/ ApiBulkAnswer
  \/ LoadData \/ LoadAnswer
  \/ ReloadFromIndexedDB
  \/ LogoutSidebar \/ LogoutBottomNav

InitSignedOut == InitWith(0, {"sales", "clients"})

SpecSignedOut == InitSignedOut /\ [][NextSignedOut]_vars

(***************************************************************************)
(* The claims.                                                             *)
(***************************************************************************)
NoDuplicates(s) == \A i, j \in 1..Len(s) : i # j => s[i] # s[j]
Ascending(s) == \A i, j \in 1..Len(s) : i < j => s[i] < s[j]
ActivePasses == {c \in Callers : sync[c].pc # "idle"}

\* C1: every useApi write (create, update, delete; products, sales, clients,
\* schedules) that failed with a connectivity failure has left a mutation in
\* the queue and its caller observed "saved locally, will sync"
C1_FailedWriteIsQueued ==
  \A k \in 1..Len(done) :
    done[k].failure = "net" =>
      /\ done[k].outcome = "savedLocally"
      /\ done[k].queued \in everQueued

\* the user has asked for the removal of the record with this id
RemovedByUser(i) ==
  \/ \E k \in 1..Len(done) : done[k].kind = "delete" /\ IdOf(done[k].rec) = i
  \/ op.pc # "idle" /\ op.kind = "delete" /\ IdOf(op.rec) = i

\* C2: a record whose create was queued by add, and whose add has returned,
\* is in the collection view as long as the create is pending
C2_OfflineRecordStaysVisible ==
  \A k \in 1..Len(done) :
    LET d == done[k]
    IN (/\ d.kind = "create"
        /\ d.queued \in QueueIds(Pending(syncQueue))
        /\ ~RemovedByUser(IdOf(d.rec)))
       => ExistsById(items, IdOf(d.rec))

\* the records of a store that replays of the create with queue id k brought in
CopiesOf(store, k) == {x \in db[store] : <<k, x.sid>> \in born}

\* C3: once a create has settled, the record under its temporary id is gone
\* from the Local Store and the store holds no second copy of the entity
C3_OneRecordAfterCreate ==
  \A e \in SeqToSet(syncQueue) :
    (e.type = "create" /\ e.synced /\ e.id \in acked) =>
      /\ ~HasKey(db[e.store], e.data.id)
      /\ Cardinality(CopiesOf(e.store, e.id)) <= 1

\* C4: whenever a remote call for a mutation is in flight (the immediate
\* replay of queueAction or a step of syncAll), the mutation has been added
\* to the queue
C4_QueuedBeforeRemoteCall ==
  /\ qa.pc = "call" => qa.action.id \in everQueued
  /\ \A c \in Callers :
       sync[c].pc = "call" => sync[c].pending[sync[c].i].id \in everQueued

C4_Witness ==
  /\ qa.pc = "call"
  /\ qa.action.id \in QueueIds(Pending(syncQueue))

\* C5: every mutation of the queue that is marked settled has been
\* acknowledged by the remote API
C5_SettledOnlyAfterAck ==
  \A e \in SeqToSet(syncQueue) : e.synced => e.id \in acked

\* C6: at most one syncAll pass runs at a time, the flag is set exactly while
\* it runs, and a pass sends no mutation twice
C6_SinglePass ==
  /\ Cardinality(ActivePasses) <= 1
  /\ syncInProgress <=> ActivePasses # {}
  /\ \A c \in Callers : NoDuplicates(sync[c].attempted)

C6_Witness ==
  /\ reentered
  /\ \E c \in Callers : sync[c].pc = "call"

\* C7: a pass attempts the pending mutations in ascending queue id, and skips
\* none: every mutation of its list with a smaller id than an attempted one
\* has been attempted
C7_FifoWithinPass ==
  \A c \in Callers :
    LET st == sync[c]
    IN /\ Ascending(st.attempted)
       /\ \A k \in 1..Len(st.pending) :
            (\E j \in 1..Len(st.attempted) : st.pending[k].id < st.attempted[j])
              => \E j \in 1..Len(st.attempted) : st.attempted[j] = st.pending[k].id

C7_Witness ==
  \E c \in Callers : Len(sync[c].attempted) >= 2

\* C8: a mutation whose replay failed in a pass is, after every step of that
\* pass, still in the queue, pending and unchanged
C8_FailedStaysPending ==
  [][\A c \in Callers : \A k \in sync[c].failed :
       k \notin acked' =>
         \E e \in SeqToSet(syncQueue') :
           e.id = k /\ ~e.synced /\ e \in SeqToSet(sync[c].pending)]_vars

\* C9: the prune step of syncAll leaves every pending mutation in the queue
C9_PruneKeepsPending ==
  [][\A c \in Callers :
       (sync[c].pc = "prune" /\ sync'[c].pc = "idle") =>
         SeqToSet(Pending(syncQueue)) \subseteq SeqToSet(Pending(syncQueue'))]_vars

\* C10: when a pass of syncAll completes, the queue holds at most KEEP_SYNCED
\* settled mutations
C10_AtMostKeepSynced ==
  [][\A c \in Callers :
       (sync[c].pc # "idle" /\ sync'[c].pc = "idle") =>
         Len(Settled(syncQueue')) <= KEEP_SYNCED]_vars

\* the queue ids a step of syncAll newly sends to the remote
NewlyAttempted(c) ==
  {sync'[c].attempted[i] : i \in 1..Len(sync'[c].attempted)}
    \ {sync[c].attempted[i] : i \in 1..Len(sync[c].attempted)}

\* C11: an update or delete whose replay failed because its id resolves to
\* no server record is not attempted again by a replay cycle
C11_UnresolvableNotRetried ==
  [][\A c \in Callers : \A k \in NewlyAttempted(c) :
       <<k, "noid">> \notin rejected]_vars

\* C13: a mutation whose replay the remote answered with a structured
\* rejection is not sent to the remote again by a replay cycle
C13_RejectedNotRetried ==
  [][\A c \in Callers : \A k \in NewlyAttempted(c) :
       <<k, "app">> \notin rejected]_vars

\* C12: when a useApi write ends with a rejection of the remote (no
\* connectivity failure), its caller gets the error, no mutation was queued
\* for it, and the record it wrote is in the Local Store
C12_RejectionSurfaces ==
  [][Len(done') = Len(done) + 1 =>
       LET d == done'[Len(done')]
       IN d.failure = "app" =>
            /\ d.outcome = "error"
            /\ d.queued = 0
            /\ d.kind # "delete" => HasKey(db'[d.store], d.rec.id)]_vars

\* the records of the Local Store that have only a temporary id
TemporaryOnly(S) == {x \in S : IsNum(x.id) /\ x.sid = None}

\* C14: a record of the Local Store that has only a temporary id and is not in
\* the fetched server list is still in the Local Store when the answer to the
\* list fetch has been reconciled
C14_TemporarySurvivesFetch ==
  [][(load.pc = "fetch" /\ load'.pc = "idle") =>
       \A x \in TemporaryOnly(db[endpoint]) : HasKey(db'[endpoint], x.id)]_vars

\* a step that reconciles the answer to a successful list fetch
FetchReconciled ==
  /\ load.pc = "fetch" /\ load'.pc = "idle"
  /\ userId = load.user
  /\ LET data == Unmapped(ListOf(endpoint, load.user))
         S == StoreAfterFetch(data)
     IN /\ db' = [db EXCEPT ![endpoint] = S]
        /\ items' = ItemsAfterFetch(data, S)
        /\ cache' = [has |-> TRUE, data |-> data]
        /\ ~changed' /\ lastSync'

\* the records of the Local Store that carry a serverId the server list lacks
SettledAbsent(S) == {x \in S : x.sid # None /\ ~OnServer(endpoint, x.sid)}

\* C15: a record of the Local Store that carries a settled serverId and is
\* not in the fetched server list is neither in the Local Store nor in the
\* view when the answer to the list fetch has been reconciled
C15_SettledAbsentIsDeleted ==
  [][FetchReconciled =>
       \A x \in SettledAbsent(db[endpoint]) :
         /\ \A y \in db'[endpoint] : IdOf(y) # x.sid
         /\ ~ExistsById(items', x.sid)]_vars

\* the create that made sale s from the optimistic record n is acknowledged,
\* the push of s is delivered and reloadFromIndexedDB has run since
Merged(n, s) == <<n, s>> \in made /\ \E p \in pushed : p[1] = s /\ p[2] = "reloaded"

\* the positions of the view that show the optimistic or the server copy
CopiesInView(v, n, s) == {k \in 1..Len(v) : IdOf(v[k]) \in {n, s}}

\* C19: when the acknowledgment of a sale's create, the sale:created push of
\* the sale and the reloadFromIndexedDB after the push have all taken place,
\* in whatever order, the view shows the sale exactly once, under its server
\* id (unless the user has removed the sale meanwhile)
C19_PushMergesWithOptimistic ==
  [][\A m \in made' :
       (Merged(m[1], m[2])' /\ ~Merged(m[1], m[2]) /\ ~RemovedByUser(m[2])') =>
         /\ Cardinality(CopiesInView(items', m[1], m[2])) = 1
         /\ \A k \in CopiesInView(items', m[1], m[2]) : IdOf(items'[k]) = m[2]]_vars

\* the keys of the records of a list
KeysOf(l) == {saleKey(l[k]) : k \in 1..Len(l)}

\* C20: after a sales dedup pass no two records of the result share the key
\* (product, day, quantity, revenue), and for a key that a record with a
\* server id and a record with a temporary id both have in the input, the
\* record of the result has a server id
C20_DedupKeepsServerId ==
  op.pc \in {"sort", "set"} =>
    /\ \A i, j \in 1..Len(items) : i # j => saleKey(items[i]) # saleKey(items[j])
    /\ \A i, j \in 1..Len(op.updated) :
         ( /\ saleKey(op.updated[i]) = saleKey(op.updated[j])
           /\ IsStr(IdOf(op.updated[i]))
           /\ IsNum(IdOf(op.updated[j])) ) =>
           \E k \in 1..Len(items) :
             /\ saleKey(items[k]) = saleKey(op.updated[i])
             /\ IsStr(IdOf(items[k]))

\* a pass over a list in which a temporary record comes before a server
\* record of the same key, and a record of the same content on another day
C20_Witness ==
  /\ op.pc = "sort"
  /\ Len(op.updated) = 3
  /\ \E i, j, k \in 1..3 :
       /\ i < j
       /\ IsNum(IdOf(op.updated[i])) /\ IsStr(IdOf(op.updated[j]))
       /\ saleKey(op.updated[i]) = saleKey(op.updated[j])
       /\ op.updated[k].c = op.updated[i].c
       /\ saleKey(op.updated[k]) # saleKey(op.updated[i])
  /\ Len(items) = 2

\* the records of a view that are stored under another owner than u
Foreign(v, u) == {k \in 1..Len(v) : v[k].uid # u}

\* C16: the step that ends a collection load (the answer to the list fetch,
\* be it a list or a failure that falls back to the Local Store) leaves in
\* the view only records of the active owner
C16_LoadShowsOwnRecords ==
  [][(load.pc = "fetch" /\ load'.pc = "idle" /\ authenticated') =>
       Foreign(items', userId') = {}]_vars

\* the Response Cache alone, from a Map that earlier lists of products with
\* params have filled to one entry below its capacity, or to its capacity
Filled(h) ==
  [k \in 1..h |-> [key |-> getCacheKey(PathOf("products"), k), data |-> "a",
                   timestamp |-> k % 2]]

NextCache ==
  \/ CacheGet \/ CacheSet \/ CacheInvalidate \/ CacheInvalidateStore
  \/ CacheClear \/ CacheCleanup \/ CacheTick

InitCache ==
  /\ InitHook(0, {"clients"}, {}, IdleOp)
  /\ \E h \in {MAX_CACHE_SIZE - 1, MAX_CACHE_SIZE} :
       apiCache = [EmptyCache EXCEPT !.cache = Filled(h)]
  /\ requestManager = NewRequestManager
  /\ idGenerator = NewIdGenerator
  /\ ws = NewWebSocket
  /\ websocketManager = NewWebSocketManager

SpecCache == InitCache /\ [][NextCache]_vars

\* the deduplication of the Request Coordinator: execute, the settling of
\* requests, the timers and the maintenance calls
NextRequests ==
  \/ Execute \/ RequestSettles \/ TimerFires
  \/ RequestCancel \/ RequestClear \/ RequestCleanup \/ RequestTick

\* the manager with h requests waiting for their batch
Waiting(h) ==
  [NewRequestManager EXCEPT
     !.requestQueue = [k \in 1..h |-> "k1"],
     !.isProcessingQueue = h > 0,
     !.pc = IF h > 0 THEN "delay" ELSE "idle"]

InitRequestsAt(H) ==
  /\ InitHook(0, {"clients"}, {}, IdleOp)
  /\ apiCache = EmptyCache
  /\ idGenerator = NewIdGenerator
  /\ ws = NewWebSocket
  /\ websocketManager = NewWebSocketManager
  /\ \E h \in H : requestManager = Waiting(h)

InitRequests == InitRequestsAt({0})

SpecRequests == InitRequests /\ [][NextRequests]_vars

\* the queue of the Request Coordinator, which a burst of queue() calls
\* within one batch delay has filled to one below its capacity, or to it,
\* over a time shorter than one tick of the clock
NextBacklog ==
  \/ RequestQueue \/ ProcessBatch \/ BatchSettled
  \/ RequestSettles \/ RequestClear

InitBacklog == InitRequestsAt({MAX_QUEUE_SIZE - 1, MAX_QUEUE_SIZE})

SpecBacklog == InitBacklog /\ [][NextBacklog]_vars

\* the Identifier Generator alone, in a process that has made no call yet or
\* whose counter is about to wrap
NextIds == GenerateUniqueId \/ GetNextId \/ IdTick

InitIds ==
  /\ InitHook(0, {"clients"}, {}, IdleOp)
  /\ apiCache = EmptyCache
  /\ requestManager = NewRequestManager
  /\ \E c \in {0, MAX_COUNTER - 2} :
       idGenerator = [NewIdGenerator EXCEPT !.counter = c]
  /\ ws = NewWebSocket
  /\ websocketManager = NewWebSocketManager

SpecIds == InitIds /\ [][NextIds]_vars

\* the Real-Time Channel hook of a signed-in user, from before its mount
NextWs == WsMount \/ WsOpen \/ WsClose \/ WsTimer \/ WsOffline \/ WsOnline
          \/ WsUnmount

InitWs == InitAt(0, {"clients"}, {}, IdleOp)

SpecWs == InitWs /\ [][NextWs]_vars

\* the push registry alone
NextPubSub == Subscribe \/ Unsubscribe \/ HandleMessage

InitPubSub == InitAt(0, {"sales"}, {}, IdleOp)

SpecPubSub == InitPubSub /\ [][NextPubSub]_vars

\* the Sync Manager with the triggers of syncAll that the program has: the
\* online event (useOffline at once, handleOnline after a second) and the
\* writes of useLocalStorage.  Every started call, timer and pass goes on;
\* the network and the user are free.
NextRetry ==
  \/ NetChange
  \/ HandleConnectivity
  \/ QaAnswer
  \/ \E c \in Callers : due > 0 /\ SyncAllStart(c)
  \/ \E c \in Callers : SyncRead(c)
  \/ \E c \in Callers : SyncStep(c)
  \/ \E c \in Callers : SyncAnswer(c)
  \/ \E c \in Callers : SyncPrune(c)
  \/ LsAdd

InitRetry == InitObserving(0, {"clients"}, {"due", "rejected"})

SpecRetry ==
  /\ InitRetry /\ [][NextRetry]_vars
  /\ WF_vars(HandleConnectivity)
  /\ WF_vars(QaAnswer)
  /\ WF_vars(\E c \in Callers : due > 0 /\ SyncAllStart(c))
  /\ WF_vars(\E c \in Callers : SyncRead(c))
  /\ WF_vars(\E c \in Callers : SyncStep(c))
  /\ WF_vars(\E c \in Callers : SyncAnswer(c))
  /\ WF_vars(\E c \in Callers : SyncPrune(c))

\* the Sync Manager with its triggers and the sync button, where the remote
\* call of a syncAll pass may stay without an answer; everything else that
\* has started goes on
NextHung == NextRetry \/ SyncButton

InitHung == InitObserving(0, {"clients"}, {"due"})

SpecHung ==
  /\ InitHung /\ [][NextHung]_vars
  /\ WF_vars(HandleConnectivity)
  /\ WF_vars(QaAnswer)
  /\ WF_vars(\E c \in Callers : due > 0 /\ SyncAllStart(c))
  /\ WF_vars(\E c \in Callers : SyncRead(c))
  /\ WF_vars(\E c \in Callers : SyncStep(c))
  /\ WF_vars(\E c \in Callers : SyncPrune(c))

\* mutation a is recorded under an owner other than the active user u
OfAnotherOwner(a, u) == a.data.uid # Absent /\ u # Absent /\ a.data.uid # u

\* C17: no replay (the immediate attempt of queueAction, a pass of syncAll)
\* sends a mutation to the remote API while the active user is another
\* owner than the one the mutation's payload is recorded under
C17_ReplayOnlyOwnMutations ==
  [][/\ \A c \in Callers :
          (sync[c].pc # "call" /\ sync'[c].pc = "call") =>
            ~OfAnotherOwner(sync'[c].pending[sync'[c].i], userId')
     /\ (qa.pc # "call" /\ qa'.pc = "call") => ~OfAnotherOwner(qa'.action, userId')]_vars

\* a step of the hook taken while the session provider names no owner: the
\* owner is absent before and after it, and it is not the answer to an
\* immediate attempt that queueAction started earlier
WithoutOwner == userId = Absent /\ userId' = Absent /\ qa' = qa

\* the step writes no entity store and no sync queue, and starts no call to
\* the remote API
NoWriteNoCall ==
  /\ db' = db /\ syncQueue' = syncQueue /\ nextKey' = nextKey
  /\ server' = server /\ nextSrv' = nextSrv
  /\ op' = op /\ load' = load /\ op.pc = "idle" /\ load.pc = "idle"

\* the step is a mutation of the hook that throws an error of one of kinds F
ThrowsOneOf(F) ==
  /\ Len(done') = Len(done) + 1
  /\ done'[Len(done')].outcome = "error"
  /\ done'[Len(done')].failure \in F

\* the errors bulkAdd throws before it looks at the owner, per store
BeforeOwnerCheck(store) == IF store = "sales" THEN {} ELSE {"unsupported"}

NewestFirst(v) == \A k \in 1..(Len(v) - 1) : v[k].ts >= v[k + 1].ts

\* a pushed sale was put into the view and its reload from the Local Store
\* has not run yet
AwaitingReload == \E p \in pushed : p[2] = "pushed"

\* C21: once an operation that changes the sales view has finished (the
\* optimistic add, the acknowledgment of a create, a push with its reload, a
\* reload from the Local Store, a list fetch), the sales view is ordered by
\* timestamp descending
C21_SalesNewestFirst ==
  (endpoint = "sales" /\ ~AwaitingReload) => NewestFirst(items)

\* the collection a key of the hook asks for: the store of `/${store}`
CollectionOf(key) == key[2]

\* C22: get(key) right after set(key, data), within the expiry window,
\* returns the data that was set; get(key) right after invalidateStore of the
\* key's collection returns absent
C22_SetGetInvalidate ==
  [][LET l == apiCache.last
         g == apiCache'.last
     IN /\ (g.op = "get" /\ l.op = "set" /\ g.key = l.key
             /\ apiCache'.now - l.at <= CACHE_DURATION) => g.data = l.data
        /\ (g.op = "get" /\ l.op = "invalidateStore"
             /\ CollectionOf(g.key) = CollectionOf(l.key)) => g.data = Absent]_vars

\* into a Map at its capacity a key was set anew, and one tick later get
\* returned what was set
C22_Witness ==
  /\ apiCache.last.op = "get" /\ apiCache.last.prev = "set"
  /\ apiCache.last.pkey = apiCache.last.key
  /\ apiCache.last.data = "b"
  /\ \E e \in SeqToSet(apiCache.cache) :
       e.key = apiCache.last.key /\ e.timestamp + 1 = apiCache.last.at
  /\ Len(apiCache.cache) = MAX_CACHE_SIZE

\* the keys the Map holds
KeysIn(c) == {c[k].key : k \in 1..Len(c)}

\* the step is a call of set
IsSet == apiCache'.last.op = "set" /\ apiCache'.now = apiCache.now /\ apiCache' # apiCache

\* C24: the Response Cache never holds more than 100 entries; set evicts an
\* entry only when the insert would overflow the capacity (the Map is full
\* and the key is new), and then exactly one entry, one with the oldest
\* timestamp
C24_EvictsOnlyOnOverflow ==
  [][/\ Len(apiCache'.cache) <= MAX_CACHE_SIZE
     /\ IsSet =>
          LET c == apiCache.cache
              key == apiCache'.last.key
              evicted == KeysIn(c) \ KeysIn(apiCache'.cache)
          IN evicted # {} =>
               /\ Len(c) >= MAX_CACHE_SIZE /\ key \notin KeysIn(c)
               /\ Cardinality(evicted) = 1
               /\ \A k \in 1..Len(c) : c[k].key \in evicted =>
                    \A j \in 1..Len(c) : c[k].timestamp <= c[j].timestamp]_vars

\* a mutation to the collection of the hook settles in this step: the remote
\* API applied it (the direct call of the hook, the immediate replay of
\* queueAction, a pass of syncAll)
SettlesHere == server'[endpoint] # server[endpoint]

\* C23: whenever a mutation to a collection settles, the Response Cache
\* entry of that collection is invalidated, so that no later load is served
\* from an entry populated before the settled write
C23_SettleInvalidatesCache ==
  [][SettlesHere => ~cache'.has]_vars

\* C25: execute(key, fn) without force, called while an entry for the key is
\* registered that started less than the dedupe window ago, does not invoke
\* fn and returns the promise of the registered request
C25_DedupesWithinWindow ==
  [][requestManager'.calls # requestManager.calls =>
       LET rm == requestManager
           call == requestManager'.last
       IN \A e \in PendingFor(rm, call.key) :
            (~call.force /\ rm.now - e.timestamp < DEDUPE_WINDOW) =>
              /\ requestManager'.invoked = rm.invoked
              /\ requestManager'.running = rm.running
              /\ call.promise = e.promise]_vars

\* a second caller joined, one tick after it started, a request that is
\* still running
C25_Witness ==
  /\ requestManager.last.op = "execute" /\ ~requestManager.last.invokes
  /\ requestManager.last.promise \in requestManager.running
  /\ \E e \in requestManager.pendingRequests :
       /\ e.promise = requestManager.last.promise
       /\ e.subscribers = 2
       /\ requestManager.last.at = e.timestamp + 1

\* C26: the queue of the Request Coordinator never holds more than 50
\* requests; queue() called while 50 are waiting is rejected and not
\* admitted, and leaves the waiting requests and the requests in flight as
\* they were
C26_BoundedQueue ==
  [][/\ Len(requestManager'.requestQueue) <= MAX_QUEUE_SIZE
     /\ (requestManager'.calls # requestManager.calls
          /\ Len(requestManager.requestQueue) >= MAX_QUEUE_SIZE) =>
            /\ requestManager'.last.rejected
            /\ requestManager'.requestQueue = requestManager.requestQueue
            /\ requestManager'.pendingRequests = requestManager.pendingRequests
            /\ requestManager'.running = requestManager.running
            /\ requestManager'.batch = requestManager.batch]_vars

\* a queue() call was turned away from the full queue
C26_Witness ==
  /\ requestManager.last.op = "queue" /\ requestManager.last.rejected
  /\ Len(requestManager.requestQueue) = MAX_QUEUE_SIZE

\* C27: every call of generateUniqueId returns a value strictly greater than
\* the value of every earlier call of the process
C27_IdsIncrease ==
  \A i, j \in 1..Len(idGenerator.issued) :
    i < j => Less(idGenerator.issued[i], idGenerator.issued[j])

\* C28: no two calls of generateUniqueId of the process return equal ids
C28_IdsDiffer ==
  \A i, j \in 1..Len(idGenerator.issued) :
    i < j => idGenerator.issued[i] # idGenerator.issued[j]

\* C29: getNextId returns a value strictly greater than the greatest id of
\* the records it is given, and the value of generateUniqueId when it is
\* given none
C29_NextIdAboveExisting ==
  idGenerator.last.op = "getNextId" =>
    LET call == idGenerator.last
    IN IF call.items = {} THEN call.result = call.newId
       ELSE \A x \in call.items : Less(x, call.result)

\* C30: a reconnection scheduled after a close has the delay
\* reconnectInterval * 2^n, n being the reconnections made since the last
\* successful open, and no more than maxReconnectAttempts reconnections are
\* made without a successful open in between
C30_BackoffBounded ==
  /\ \A t \in ws.timers : t.delay = reconnectInterval * 2^t.made
  /\ ws.made <= maxReconnectAttempts

\* the sockets of the hook that are open or being opened
Live(w) == {k \in 1..MaxSockets : w.sockets[k].state \in {"connecting", "open"}}

\* C31: while the client is offline, from the offline event on, the mounted
\* hook has no reconnection timer scheduled and no connection open or being
\* opened
C31_OfflineCancelsReconnect ==
  (ws.mounted = "yes" /\ ~navOnline) => (ws.timers = {} /\ Live(ws) = {})

\* C32: at most one connection is open or being opened at any moment, and a
\* connection is started only while there is an active user id
C32_SingleConnection ==
  [][/\ Cardinality(Live(ws')) <= 1
     /\ (Live(ws') \ Live(ws) # {} => userId # Absent)]_vars

\* C40: once the cleanup of the mount effect has called disconnect, no
\* reconnection is scheduled and no connection is open or being opened
C40_DisconnectStaysDisconnected ==
  ws.mounted = "gone" => (ws.timers = {} /\ Live(ws) = {})

\* C33: handleMessage of a message of type t invokes the callbacks subscribed
\* to t at that time, each once, and no other; none of them is a callback
\* whose unsubscribe function was called before
C33_DispatchByType ==
  websocketManager.last.op = "handleMessage" =>
    LET call == websocketManager.last
        ran == call.invoked
    IN /\ SeqToSet(ran) = {s.cb : s \in {x \in call.subs : x.type = call.type}}
       /\ \A i, j \in 1..Len(ran) : i # j => ran[i] # ran[j]
       /\ SeqToSet(ran) \cap call.cancelled = {}

\* a message arrives for a type with two subscribers, the first of which
\* throws, while another type has a subscriber and one callback of this type
\* was unsubscribed
C33_Witness ==
  /\ websocketManager.last.op = "handleMessage"
  /\ Len(websocketManager.last.invoked) = 2
  /\ websocketManager.last.invoked[1].throws
  /\ \E s \in websocketManager.last.subs : s.type # websocketManager.last.type
  /\ websocketManager.last.cancelled # {}

\* a remote call gets its answer
AnswerStep ==
  \/ qa.pc = "call" /\ qa'.pc = "idle"
  \/ \E c \in Callers : sync[c].pc = "call" /\ sync'[c].pc = "loop"

\* the remote call of a create fails: no record is added to the remote
Failing == AnswerStep /\ server' = server

\* mutation k is in the queue, pending, after an attempt that the remote
\* answered with an error
LeftPending(k) ==
  /\ \E i \in 1..Len(syncQueue) : syncQueue[i].id = k /\ ~syncQueue[i].synced
  /\ \E r \in {"app", "noid"} : <<k, r>> \in rejected

IsSettled(k) ==
  \E i \in 1..Len(syncQueue) : syncQueue[i].id = k /\ syncQueue[i].synced

\* C34: if from some point on the client stays online and no remote call
\* fails any more, every mutation left Pending by a failed attempt is
\* eventually Settled
C34_PendingEventuallySettles ==
  (<>[]navOnline /\ <>[][~Failing]_vars) =>
    \A k \in 1..MaxWrites : [](LeftPending(k) => <>IsSettled(k))

\* C35: the remote call of a mutation is never in flight twice, once by the
\* immediate replay of queueAction and once by a syncAll pass
C35_OneCallInFlight ==
  \A c \in Callers :
    ~(/\ qa.pc = "call"
      /\ sync[c].pc = "call"
      /\ sync[c].pending[sync[c].i].id = qa.action.id)

IsPending(k) ==
  \E i \in 1..Len(syncQueue) : syncQueue[i].id = k /\ ~syncQueue[i].synced

\* the remote call of mutation k is in flight
InFlight(k) ==
  \/ qa.pc = "call" /\ qa.action.id = k
  \/ \E c \in Callers : sync[c].pc = "call" /\ sync[c].pending[sync[c].i].id = k

\* C36: while syncAll goes on being called and the client stays online,
\* every Pending mutation is replayed or Settled in the end, also when the
\* remote call of another mutation never gets its answer
C36_HungCallDoesNotBlock ==
  (<>[]navOnline /\ []<><<\E c \in Callers : due > 0 /\ SyncAllStart(c)>>_vars) =>
    \A k \in 1..MaxWrites : [](IsPending(k) => <>(InFlight(k) \/ IsSettled(k)))

\* C37: the cleanup timer of a request leaves alone the registry entry of
\* every request that is still in flight and young enough to deduplicate
C37_TimerKeepsLaterEntry ==
  [][requestManager'.last.op = "timer" =>
       \A e \in requestManager.pendingRequests :
         (e.promise \in requestManager.running /\ fresh(e, requestManager.now)) =>
           e \in requestManager'.pendingRequests]_vars

\* C38: every server id of the list handed to the sales dedup pass is the id
\* of a record of its result: a record with a server id is dropped only for
\* a record with the same server id
C38_DedupKeepsDistinctServerSales ==
  op.pc \in {"sort", "set"} =>
    \A i \in 1..Len(op.updated) :
      IsServerId(IdOf(op.updated[i])) =>
        \E k \in 1..Len(items) : IdOf(items[k]) = IdOf(op.updated[i])

\* C39: after the active owner changed from A to B, a collection load for B
\* never puts into the view a Response Cache entry that was populated while A
\* was the active owner: a load that returned at the cache fast path showed
\* only records of the owner it ran for (the remote list that populates an
\* entry holds the records of the owner of that time)
ShownFromCache == load.pc = "idle" /\ "from" \in DOMAIN load
C39_NoCacheEntryOfPreviousOwner ==
  ShownFromCache =>
    \A k \in 1..Len(load.data) : load.data[k].uid = load.user

=========================================================================
